---------------------------- MODULE Spec2Model ----------------------------
(***************************************************************************)
(* Model of the activity aggregation engine of weft:                       *)
(*   src/src/fetchers/githubFetcher.ts  fetchGithubMetrics, withConcurrency*)
(*   src/src/utils/date.ts              getWindowRange, findMostActiveHour,*)
(*                                      convertHourlyCountsToTimezone      *)
(*   src/src/render/svgToPng.ts         the older collector, its pool and  *)
(*                                      getHourInTargetTZ                  *)
(*   src/src/cli/main.ts                main                               *)
(*   src/src/publish/xClient.ts         postToX, uploadMedia               *)
(*                                                                         *)
(* Time is counted in minutes (a Date is an instant; the code compares and *)
(* subtracts instants, and toISOString / new Date(iso) is lossless on      *)
(* them).  A string is a sequence of one-character strings.  A nullable    *)
(* number is a sequence of length 0 (null) or 1.                           *)
(***************************************************************************)
EXTENDS Integers, Sequences, FiniteSets, Bags, TLC

VARIABLES
    token,                 \* the credential handed to fetchGithubMetrics
    window,                \* the TimeWindow argument: duration, from, to
    now,                   \* the instant of invocation (new Date())
    upstream,              \* the responses the hosting service will give
    pc,                    \* position of the run of fetchGithubMetrics
    repoContributionNodes, \* repositories to query, in upstream order
    commitTimestamps,      \* timestamps collected by the first pool
    commitShasToFetch,     \* commits gathered by the second pool
    totalLinesChanged,     \* running sum of additions + deletions
    agg,                   \* interval counts, commit count, peak (lines 227-263)
    queue,                 \* withConcurrency: the shared queue
    inflight,              \* withConcurrency: items whose fn awaits a response
    idle,                  \* withConcurrency: workers between two items
    sent,                  \* requests issued so far, per kind
    result,                \* the value returned to the caller (<<>> until then)
    hourlyCounts,          \* argument handed to findMostActiveHour
    peak,                  \* what findMostActiveHour returned (<<>>: not called)
    handed,                \* withConcurrency: the items fn was called on, in order
    legacy,                \* the run of the collector of svgToPng.ts
    tz,                    \* one call of getHourInTargetTZ
    cli,                   \* one run of main (cli/main.ts)
    xClient,               \* one call of postToX (publish/xClient.ts)
    render                 \* one conversion of hourly counts by renderSVG

vars == <<token, window, now, upstream, pc, repoContributionNodes,
          commitTimestamps, commitShasToFetch, totalLinesChanged, agg,
          queue, inflight, idle, sent, result, hourlyCounts, peak,
          handed, legacy, tz, cli, xClient, render>>

\* the state of fetchGithubMetrics (githubFetcher.ts) and of findMostActiveHour
fetchVars == <<token, window, now, upstream, pc, repoContributionNodes,
               commitTimestamps, commitShasToFetch, totalLinesChanged, agg,
               queue, inflight, idle, sent, result, hourlyCounts, peak, handed>>

\* the state of the other programs
otherVars == <<legacy, tz, cli, xClient, render>>

----------------------------------------------------------------------------
(* Bounds of the model *)

\* most repositories the aggregate query returns in a small scenario
MaxRepos == 4
\* largest count of one bucket of an array handed to findMostActiveHour
MaxCount == 2
\* repositories of the scenario in which every search returns a full page
CapRepos == 3
\* longest duration in hours ("1h" .. "720h": up to 30 days)
MaxSpanHours == 720
\* longest duration in days ("1d" .. "30d")
MaxSpanDays == 30

(* Program constants *)

\* per_page of the commit search: the most items one search returns
PerPage == 100
\* width of the two repository pools
RepoConcurrency == 3
\* width of the commit-detail pool
StatConcurrency == 5
\* the loop bound of findMostActiveHour
HoursPerDay == 24
\* minutes in one hour (intervalMs = intervalSize * 60 * 60 * 1000)
MinutesPerHour == 60
\* the global cap on commits whose details are fetched
MAX_COMMITS == 200
\* svgToPng.ts: the cap on the SHAs gathered from one repository
MAX_COMMITS_PER_REPO == 150

Null == <<>>
Some(x) == <<x>>

Min(a, b) == IF a <= b THEN a ELSE b

\* Math.ceil(a / b) for b > 0
CeilDiv(a, b) == -((-a) \div b)

RECURSIVE SumRange(_, _, _)
\* s[lo] + ... + s[hi], by halves
SumRange(s, lo, hi) ==
    IF lo > hi THEN 0
    ELSE IF lo = hi THEN s[lo]
    ELSE LET mid == (lo + hi) \div 2
         IN  SumRange(s, lo, mid) + SumRange(s, mid + 1, hi)

SumSeq(s) == SumRange(s, 1, Len(s))

RECURSIVE SeqToBag(_)
SeqToBag(s) == IF s = <<>> THEN EmptyBag ELSE SetToBag({Head(s)}) (+) SeqToBag(Tail(s))

RECURSIVE SelectIdx(_, _, _)
\* the indices i of s, in order, from k on, with s[i].present
SelectIdx(s, k, acc) ==
    IF k > Len(s) THEN acc
    ELSE SelectIdx(s, k + 1, IF s[k].present THEN Append(acc, k) ELSE acc)

----------------------------------------------------------------------------
(* Window resolution: date.ts getWindowRange, githubFetcher.ts 103-106 *)

Digits == <<"0", "1", "2", "3", "4", "5", "6", "7", "8", "9">>
IsDigit(c) == \E i \in 1..10 : Digits[i] = c
DigitVal(c) == (CHOOSE i \in 1..10 : Digits[i] = c) - 1

RECURSIVE ReplaceFirst(_, _)
\* String.prototype.replace(c, ''): drops the first occurrence of c
ReplaceFirst(s, c) ==
    IF s = <<>> THEN <<>>
    ELSE IF Head(s) = c THEN Tail(s)
    ELSE <<Head(s)>> \o ReplaceFirst(Tail(s), c)

RECURSIVE ParseDigits(_, _, _)
\* the value of the longest prefix of digits of s; Null when it is empty
ParseDigits(s, acc, seen) ==
    IF s # <<>> /\ IsDigit(Head(s))
    THEN ParseDigits(Tail(s), acc * 10 + DigitVal(Head(s)), TRUE)
    ELSE IF seen THEN Some(acc) ELSE Null

\* parseInt(s): optional sign, then digits; Null stands for NaN
ParseInt(s) ==
    IF s # <<>> /\ Head(s) = "-"
    THEN LET p == ParseDigits(Tail(s), 0, FALSE)
         IN  IF p = Null THEN Null ELSE Some(-p[1])
    ELSE IF s # <<>> /\ Head(s) = "+" THEN ParseDigits(Tail(s), 0, FALSE)
    ELSE ParseDigits(s, 0, FALSE)

\* parseInt(durationStr.replace('h', '')) || 24
ParseHours(durationStr) ==
    LET p == ParseInt(ReplaceFirst(durationStr, "h"))
    IN  IF p = Null \/ p[1] = 0 THEN 24 ELSE p[1]

DefaultDuration == <<"2", "4", "h">>

\* window.duration ?? "24h"
DurationOf(w) == IF w.duration = Null THEN DefaultDuration ELSE w.duration[1]

\* the window of the default duration, whatever the duration handed in
getWindowRangeDefault(durationStr, t) ==
    [from |-> t - HoursPerDay * MinutesPerHour, to |-> t]

getWindowRange(durationStr, t) ==
    [from |-> t - ParseHours(durationStr) * MinutesPerHour, to |-> t]

\* the size beyond 72 hours rounded down
calculateIntervalSizeFloor(windowHours) ==
    IF windowHours <= 24 THEN 1
    ELSE IF windowHours <= 48 THEN 2
    ELSE IF windowHours <= 72 THEN 3
    ELSE windowHours \div 24

calculateIntervalSize(windowHours) ==
    IF windowHours <= 24 THEN 1
    ELSE IF windowHours <= 48 THEN 2
    ELSE IF windowHours <= 72 THEN 3
    ELSE CeilDiv(windowHours, 24)

\* the count rounded down: a last, partial interval gets no bucket
calculateIntervalCountFloor(windowHours, intervalSize) == windowHours \div intervalSize

calculateIntervalCount(windowHours, intervalSize) == CeilDiv(windowHours, intervalSize)

WindowHours == ParseHours(DurationOf(window))
IntervalSize == calculateIntervalSize(WindowHours)
IntervalCount == calculateIntervalCount(WindowHours, IntervalSize)
From == getWindowRange(DurationOf(window), now).from
To == getWindowRange(DurationOf(window), now).to


----------------------------------------------------------------------------
(* The responses of the hosting service *)

Outcomes == {"ok", "status", "throw"}

\* one commit of a search result: its author date (Null: none), whether it
\* carries a sha, and what the commit-detail request for it will answer
Commit(t, hasSha, lines, stat) ==
    [t |-> t, sha |-> hasSha, lines |-> lines, stat |-> stat]

\* one entry of commitContributionsByRepository and what the two commit
\* searches scoped to it will answer
Repo(present, ts, sha, items) ==
    [present |-> present, ts |-> ts, sha |-> sha, items |-> items]

RepoShapes(from, to) ==
    { Repo(TRUE, "ok", "ok",
           << Commit(Some(from), TRUE, 2, "ok"),
              Commit(Some(from + 15), TRUE, 3, "status") >>),
      Repo(TRUE, "ok", "ok",
           << Commit(Some(from + MinutesPerHour), TRUE, 1, "ok"),
              Commit(Some(to + 1), TRUE, 4, "throw") >>),
      Repo(TRUE, "status", "ok",
           << Commit(Some(to), TRUE, 1, "nostats"),
              Commit(Null, FALSE, 2, "ok") >>),
      Repo(TRUE, "ok", "status",
           << Commit(Some(from - 1), TRUE, 3, "ok"),
              Commit(Some(from + MinutesPerHour + 15), TRUE, 2, "ok") >>) }

\* a list with entries whose repository is null, around a repository whose
\* searches both fail
SparseRepos(from) ==
    << Repo(FALSE, "ok", "ok", <<>>),
       Repo(TRUE, "throw", "throw",
            << Commit(Some(from + MinutesPerHour), TRUE, 5, "ok") >>),
       Repo(FALSE, "ok", "ok", <<>>) >>

RepoLists(S) == UNION { [1..n -> S] : n \in 0..MaxRepos }

\* a repository whose search returns a full page of commits
FullRepo(from) ==
    Repo(TRUE, "ok", "ok", [i \in 1..PerPage |-> Commit(Some(from), TRUE, 1, "ok")])

Totals == [prs |-> 2, issues |-> 1, reviews |-> 3]

Upstreams(from, to) ==
    { [agg |-> a, repos |-> <<>>] : a \in {"nouser", "status", "throw"} }
    \cup { [agg |-> "ok", repos |-> rs] : rs \in RepoLists(RepoShapes(from, to)) }
    \cup { [agg |-> "ok", repos |-> [i \in 1..CapRepos |-> FullRepo(from)]],
           [agg |-> "ok", repos |-> SparseRepos(from)] }

\* a TimeWindow: each of its three fields may be absent
TimeWindow(duration, from, to) == [duration |-> duration, from |-> from, to |-> to]

Windows == { TimeWindow(Null, Null, Null), TimeWindow(Some(<<"2", "h">>), Null, Null) }
Nows == { 2 * HoursPerDay * MinutesPerHour }
Tokens == { "", "ghp" }

RECURSIVE ToDigits(_)
\* the decimal numeral of n >= 0, as a configuration file spells it
ToDigits(n) ==
    IF n < 10 THEN <<Digits[n + 1]>>
    ELSE ToDigits(n \div 10) \o <<Digits[(n % 10) + 1]>>

HoursDuration(n) == ToDigits(n) \o <<"h">>
DaysDuration(n) == ToDigits(n) \o <<"d">>

\* durations that are not of the form \d+[hd] with a positive count
OddDurations ==
    { <<>>, <<"h">>, <<"a", "b", "c">>, <<"0", "h">>,
      <<"1", ".", "5", "h">>, <<"-", "5", "h">> }

\* instants of invocation: a midnight (UTC) and 12:30 on the same day, late
\* enough for the longest window to start after instant 0
Midnight == (MaxSpanDays + 10) * HoursPerDay * MinutesPerHour
WideNows == { Midnight, Midnight + 12 * MinutesPerHour + 30 }

\* explicit bounds: three hours to one hour before Midnight, and the same
\* two instants the wrong way round
ExplicitFrom == Midnight - 3 * MinutesPerHour
ExplicitTo == Midnight - MinutesPerHour

WideWindows ==
    { TimeWindow(Some(HoursDuration(n)), Null, Null) : n \in 1..MaxSpanHours }
    \cup { TimeWindow(Some(DaysDuration(n)), Null, Null) : n \in 1..MaxSpanDays }
    \cup { TimeWindow(Some(d), Null, Null) : d \in OddDurations }
    \cup { TimeWindow(d, Some(ExplicitFrom), Some(ExplicitTo)) :
               d \in {Null, Some(<<"2", "h">>)} }
    \cup { TimeWindow(Null, Null, Null),
           TimeWindow(Null, Some(ExplicitTo), Some(ExplicitFrom)) }

\* a repository whose searches return commits at both ends of [from, to],
\* inside it, just outside it, and one without an author date
SpanRepo(from, to) ==
    Repo(TRUE, "ok", "ok",
         << Commit(Some(from), TRUE, 1, "ok"),
            Commit(Some(from + 15), TRUE, 1, "ok"),
            Commit(Some(to), TRUE, 1, "ok"),
            Commit(Some(from - 1), TRUE, 1, "ok"),
            Commit(Some(to + 1), TRUE, 1, "ok"),
            Commit(Null, TRUE, 1, "ok") >>)

\* the latest instant not after t whose UTC time of day is minute m
LastAt(t, m) ==
    LET day == HoursPerDay * MinutesPerHour
        d == (t \div day) * day + m
    IN  IF d <= t THEN d ELSE d - day

\* a repository with commits at 09:00, 09:15 and 14:00 UTC, each on its
\* latest day not after `to`
DayRepo(to) ==
    Repo(TRUE, "ok", "ok",
         << Commit(Some(LastAt(to, 9 * MinutesPerHour)), TRUE, 1, "ok"),
            Commit(Some(LastAt(to, 9 * MinutesPerHour + 15)), TRUE, 1, "ok"),
            Commit(Some(LastAt(to, 14 * MinutesPerHour)), TRUE, 1, "ok") >>)

SpanUpstreams(from, to) ==
    { [agg |-> a, repos |-> <<>>] : a \in {"nouser", "status", "ok"} }
    \cup { [agg |-> "ok", repos |-> <<SpanRepo(from, to)>>],
           [agg |-> "ok", repos |-> <<DayRepo(to)>>] }

\* repository lists longer than the repository pools are wide, with searches
\* and commit-detail requests that fail, and more commits than the
\* commit-detail pool is wide
PoolRepoLists(from, to) ==
    LET shape == [k \in 1..4 |->
                     CHOOSE r \in RepoShapes(from, to) :
                         /\ (k = 1) = (r.items[1].t = Some(from) /\ r.ts = "ok")
                         /\ (k = 2) = (r.items[1].t = Some(from + MinutesPerHour))
                         /\ (k = 3) = (r.ts = "status")
                         /\ (k = 4) = (r.sha = "status")]
        failing == Repo(TRUE, "throw", "throw",
                        << Commit(Some(from + MinutesPerHour), TRUE, 5, "ok") >>)
        absent == Repo(FALSE, "ok", "ok", <<>>)
    IN  { << shape[1], shape[2], shape[3], shape[1] >>,
          << shape[4], shape[3], shape[2], shape[1] >>,
          << shape[1], failing, shape[2], absent, shape[4] >> }

PoolUpstreams(from, to) ==
    { [agg |-> a, repos |-> <<>>] : a \in {"nouser", "status", "throw", "ok"} }
    \cup { [agg |-> "ok", repos |-> rs] : rs \in PoolRepoLists(from, to) }

\* arrays handed to findMostActiveHour: at most two non-zero buckets
ProbeArrays ==
    { [i \in 1..n |-> IF i = p THEN a ELSE IF i = q THEN b ELSE 0] :
        n \in {0, 2, HoursPerDay}, p \in 1..HoursPerDay, q \in 1..HoursPerDay,
        a \in 0..MaxCount, b \in 0..MaxCount }

----------------------------------------------------------------------------
(* Bucketing and peak selection: githubFetcher.ts 227-263 *)

IntervalIndex(t) == (t - From) \div (IntervalSize * MinutesPerHour)

\* the loop body counting a timestamp in its bucket and in the next one too
CountOneSpill(counts, timestamp) ==
    LET i == IntervalIndex(timestamp)
    IN  IF i >= 0 /\ i < IntervalCount
        THEN [k \in DOMAIN counts |->
                 IF k = i + 1 \/ k = i + 2 THEN counts[k] + 1 ELSE counts[k]]
        ELSE counts

\* lines 233-239: the body of the loop, for one timestamp
CountOne(counts, timestamp) ==
    LET i == IntervalIndex(timestamp)
    IN  IF i >= 0 /\ i < IntervalCount
        THEN [counts EXCEPT ![i + 1] = @ + 1]
        ELSE counts

RECURSIVE BucketizeRange(_, _, _, _)
\* the loop over timestamps[lo .. hi], in array order (the range is split
\* in halves, the first half before the second)
BucketizeRange(timestamps, lo, hi, counts) ==
    IF lo > hi THEN counts
    ELSE IF lo = hi THEN CountOne(counts, timestamps[lo])
    ELSE LET mid == (lo + hi) \div 2
             first == BucketizeRange(timestamps, lo, mid, counts)
         IN  \* the test makes TLC compute the first half before the second
             IF Len(first) = Len(counts)
             THEN BucketizeRange(timestamps, mid + 1, hi, first)
             ELSE first

\* lines 232-240: one pass over the timestamps, in array order
Bucketize(timestamps, counts) == BucketizeRange(timestamps, 1, Len(timestamps), counts)

ZeroCounts(n) == [i \in 1..n |-> 0]

RECURSIVE PeakLoopLast(_, _, _, _, _)
\* the scan with >= in place of >: among equal buckets the last one wins
PeakLoopLast(counts, i, hi, max, best) ==
    IF i >= hi THEN [max |-> max, best |-> best]
    ELSE LET c == IF i + 1 \in DOMAIN counts THEN counts[i + 1] ELSE 0
         IN  IF c >= max THEN PeakLoopLast(counts, i + 1, hi, c, Some(i))
             ELSE PeakLoopLast(counts, i + 1, hi, max, best)

RECURSIVE PeakLoop(_, _, _, _, _)
\* lines 248-254 (and date.ts 93-99): scan i = lo .. hi - 1; an entry that
\* is missing reads as 0 (?? 0)
PeakLoop(counts, i, hi, max, best) ==
    IF i >= hi THEN [max |-> max, best |-> best]
    ELSE LET c == IF i + 1 \in DOMAIN counts THEN counts[i + 1] ELSE 0
         IN  IF c > max THEN PeakLoop(counts, i + 1, hi, c, Some(i))
             ELSE PeakLoop(counts, i + 1, hi, max, best)

\* the peak tested for truthiness: index 0 reads as "no peak"
MostActiveIntervalFalsy(counts, intervalCount) ==
    LET r == PeakLoop(counts, 0, intervalCount, 0, Null)
    IN  IF r.max = 0 \/ r.best = Some(0) THEN Null ELSE r.best

\* lines 245-257
MostActiveInterval(counts, intervalCount) ==
    LET r == PeakLoop(counts, 0, intervalCount, 0, Null)
    IN  IF r.max = 0 THEN Null ELSE r.best

\* lines 261-263
MostActiveHour(mostActiveInterval, intervalSize) ==
    IF mostActiveInterval # Null
    THEN Some((mostActiveInterval[1] * intervalSize) % 24)
    ELSE Null

\* date.ts 89-102
findMostActiveHour(counts) ==
    LET r == PeakLoop(counts, 0, HoursPerDay, 0, Null)
    IN  IF r.max > 0 THEN r.best ELSE Null

\* the zero value of an older revision: only the commit count
emptyMetricsLegacy(intervalCount) == [commits_count |-> 0]

\* the zero value with hour 0 in place of null
emptyMetricsZeroHour(intervalCount) ==
    [commits_count |-> 0, lines_changed |-> 0, prs_count |-> 0,
     issues_count |-> 0, reviews_count |-> 0, repos |-> <<>>,
     most_active_hour |-> Some(0), hourly_counts |-> ZeroCounts(intervalCount),
     interval_size |-> 1]

\* new Array(n) (lines 228 and 349) throws a RangeError unless n is a valid
\* array length; the counts computed at line 106 are integers
ArrayLengthValid(n) == n >= 0

\* the zero value with the default of the parameter (24) in place of the
\* count handed in
emptyMetricsDefaultCount(intervalCount) ==
    [commits_count |-> 0, lines_changed |-> 0, prs_count |-> 0,
     issues_count |-> 0, reviews_count |-> 0, repos |-> <<>>,
     most_active_hour |-> Null, hourly_counts |-> ZeroCounts(HoursPerDay),
     interval_size |-> 1]

\* lines 340-352
emptyMetrics(intervalCount) ==
    [commits_count |-> 0, lines_changed |-> 0, prs_count |-> 0,
     issues_count |-> 0, reviews_count |-> 0, repos |-> <<>>,
     most_active_hour |-> Null, hourly_counts |-> ZeroCounts(intervalCount),
     interval_size |-> 1]

----------------------------------------------------------------------------
(* withConcurrency: githubFetcher.ts 56-70.  Creating the pool runs every
   worker up to its first await: each shifts one item and calls fn on it. *)

\* one worker per item, whatever the width asked for
PoolWorkersUncapped(items, concurrency) == Len(items)

PoolWorkers(items, concurrency) == Min(Len(items), concurrency)

\* the items the workers take as the pool is created, in order
PoolHanded(items, concurrency) == SubSeq(items, 1, PoolWorkers(items, concurrency))

PoolInflight(items, concurrency) ==
    SeqToBag(SubSeq(items, 1, PoolWorkers(items, concurrency)))

\* the queue as a copy of the items that is never shifted by the first workers
PoolQueueAll(items, concurrency) == items

PoolQueue(items, concurrency) ==
    SubSeq(items, PoolWorkers(items, concurrency) + 1, Len(items))

\* the pool taken as done as soon as its queue is empty
PoolDrained == queue = <<>>

\* line 69, await Promise.all(workers): every worker has ended
PoolIdle == inflight = EmptyBag /\ idle = 0

----------------------------------------------------------------------------
(* What fn does with the response to its request *)

\* the item has an author date; the window is not looked at
DatedAnywhere(c) == c.t # Null

\* lines 204-208: the item has an author date and it lies in [from, to]
DatedInWindow(c) == c.t # Null /\ c.t[1] >= From /\ c.t[1] <= To

\* lines 199-214: author dates of the items that lie in [from, to]
InWindow(items) ==
    LET kept == SelectSeq(items, DatedInWindow)
    IN  [k \in 1..Len(kept) |-> kept[k].t[1]]

\* lines 187-215 and the try/catch of 219-224
fetchCommitTimestampsForRepo(r) ==
    IF upstream.repos[r].ts = "ok" THEN InWindow(upstream.repos[r].items) ELSE <<>>

\* the array assigned instead of appended to: the last search to settle wins
PushTimestampsOverwrite(acc, timestamps) == timestamps

\* line 221
PushTimestamps(acc, timestamps) == acc \o timestamps

HasSha(c) == c.sha

\* lines 279-280 and 287-289: one entry per item that carries a sha.  An
\* entry {owner, repo, sha} is used only to build the commit-detail request,
\* so the model keeps of it what that request will answer.
WithSha(items) ==
    LET kept == SelectSeq(items, HasSha)
    IN  [k \in 1..Len(kept) |-> [lines |-> kept[k].lines, stat |-> kept[k].stat]]

\* lines 269-281 and the try/catch of 285-292
fetchCommitShasForRepo(r) ==
    IF upstream.repos[r].sha = "ok" THEN WithSha(upstream.repos[r].items) ELSE <<>>

\* lines 299-311: what one commit-detail response adds to totalLinesChanged
StatLines(it) == IF it.stat = "ok" THEN it.lines ELSE 0

\* the sum without the res.ok test
AddLinesUnchecked(total, it) == total + it.lines

\* line 307
AddLines(total, it) == total + StatLines(it)

----------------------------------------------------------------------------
(* State machine of one run *)

NoAgg == [intervalCounts |-> <<>>, commitsCount |-> 0,
          mostActiveInterval |-> Null, mostActiveHour |-> Null]

InitFetch ==
    /\ token \in Tokens
    /\ window \in Windows
    /\ now \in Nows
    /\ upstream \in IF token = "" THEN { [agg |-> "ok", repos |-> <<>>] }
                    ELSE Upstreams(From, To)
    /\ pc = "start"
    /\ hourlyCounts = <<>>

InitProbe ==
    /\ token = "ghp"
    /\ window = TimeWindow(Null, Null, Null)
    /\ now \in Nows
    /\ upstream = [agg |-> "ok", repos |-> <<>>]
    /\ pc = "probe"
    /\ hourlyCounts \in ProbeArrays

\* the locals of fetchGithubMetrics before its first statement
InitLocals ==
    /\ repoContributionNodes = <<>>
    /\ commitTimestamps = <<>>
    /\ commitShasToFetch = <<>>
    /\ totalLinesChanged = 0
    /\ agg = NoAgg
    /\ queue = <<>>
    /\ inflight = EmptyBag
    /\ idle = 0
    /\ sent = [graphql |-> 0, search |-> 0, listing |-> 0, detail |-> 0]
    /\ result = Null
    /\ peak = <<>>
    /\ handed = <<>>

\* a program that is not run
NotRun == [pc |-> "idle"]

\* only fetchGithubMetrics (or findMostActiveHour) runs
OthersIdle ==
    legacy = NotRun /\ tz = NotRun /\ cli = NotRun /\ xClient = NotRun /\ render = NotRun

Init == (InitFetch \/ InitProbe) /\ InitLocals /\ OthersIdle

\* line 101
RejectToken ==
    /\ pc = "start"
    /\ token = ""
    /\ pc' = "raised"
    /\ UNCHANGED <<token, window, now, upstream, repoContributionNodes,
                   commitTimestamps, commitShasToFetch, totalLinesChanged, agg,
                   queue, inflight, idle, sent, result, hourlyCounts, peak>>
    /\ UNCHANGED <<handed, otherVars>>

\* the aggregate query sent without the test of line 101
SendAggregateUnchecked ==
    /\ pc = "start"
    /\ pc' = "graphql"
    /\ sent' = [sent EXCEPT !.graphql = @ + 1]
    /\ UNCHANGED <<token, window, now, upstream, repoContributionNodes,
                   commitTimestamps, commitShasToFetch, totalLinesChanged, agg,
                   queue, inflight, idle, result, hourlyCounts, peak>>
    /\ UNCHANGED <<handed, otherVars>>

\* lines 103-146: the window is resolved and the aggregate query is sent
SendAggregate ==
    /\ pc = "start"
    /\ token # ""
    /\ pc' = "graphql"
    /\ sent' = [sent EXCEPT !.graphql = @ + 1]
    /\ UNCHANGED <<token, window, now, upstream, repoContributionNodes,
                   commitTimestamps, commitShasToFetch, totalLinesChanged, agg,
                   queue, inflight, idle, result, hourlyCounts, peak>>
    /\ UNCHANGED <<handed, otherVars>>

\* graphqlFetch, lines 20-33: a non-2xx response (or a failed fetch) throws,
\* and fetchGithubMetrics does not catch it
AggregateFails ==
    /\ pc = "graphql"
    /\ upstream.agg \in {"status", "throw"}
    /\ pc' = "raised"
    /\ UNCHANGED <<token, window, now, upstream, repoContributionNodes,
                   commitTimestamps, commitShasToFetch, totalLinesChanged, agg,
                   queue, inflight, idle, sent, result, hourlyCounts, peak>>
    /\ UNCHANGED <<handed, otherVars>>

\* lines 147-152; new Array in emptyMetrics may throw, which nothing catches
AggregateNoUser ==
    /\ pc = "graphql"
    /\ upstream.agg = "nouser"
    /\ IF ArrayLengthValid(IntervalCount)
       THEN result' = Some(emptyMetrics(IntervalCount)) /\ pc' = "done"
       ELSE result' = result /\ pc' = "raised"
    /\ UNCHANGED <<token, window, now, upstream, repoContributionNodes,
                   commitTimestamps, commitShasToFetch, totalLinesChanged, agg,
                   queue, inflight, idle, sent, hourlyCounts, peak>>
    /\ UNCHANGED <<handed, otherVars>>

\* lines 154-218: the repositories are listed and the first pool is created
AggregateOk ==
    /\ pc = "graphql"
    /\ upstream.agg = "ok"
    /\ LET nodes == SelectIdx(upstream.repos, 1, <<>>)
       IN  /\ repoContributionNodes' = nodes
           /\ queue' = PoolQueue(nodes, RepoConcurrency)
           /\ inflight' = PoolInflight(nodes, RepoConcurrency)
           /\ handed' = PoolHanded(nodes, RepoConcurrency)
           /\ sent' = [sent EXCEPT !.search = @ + PoolWorkers(nodes, RepoConcurrency)]
    /\ idle' = 0
    /\ pc' = "timestamps"
    /\ UNCHANGED <<token, window, now, upstream, commitTimestamps,
                   commitShasToFetch, totalLinesChanged, agg, result,
                   hourlyCounts, peak>>
    /\ UNCHANGED otherVars

\* the search of repository r settles, with neither try/catch in place: a
\* request that throws rejects the pool and the run
SettleTimestampsRethrow(r) ==
    /\ pc = "timestamps"
    /\ BagIn(r, inflight)
    /\ IF upstream.repos[r].ts = "throw"
       THEN /\ pc' = "raised"
            /\ UNCHANGED <<commitTimestamps, inflight, idle>>
       ELSE /\ commitTimestamps' = PushTimestamps(commitTimestamps, fetchCommitTimestampsForRepo(r))
            /\ inflight' = inflight (-) SetToBag({r})
            /\ idle' = idle + 1
            /\ pc' = pc
    /\ UNCHANGED <<token, window, now, upstream, repoContributionNodes,
                   commitShasToFetch, totalLinesChanged, agg, queue, sent,
                   result, hourlyCounts, peak>>
    /\ UNCHANGED <<handed, otherVars>>

\* lines 219-224: the search of repository r settles
SettleTimestamps(r) ==
    /\ pc = "timestamps"
    /\ BagIn(r, inflight)
    /\ commitTimestamps' = PushTimestamps(commitTimestamps, fetchCommitTimestampsForRepo(r))
    /\ inflight' = inflight (-) SetToBag({r})
    /\ idle' = idle + 1
    /\ UNCHANGED <<token, window, now, upstream, pc, repoContributionNodes,
                   commitShasToFetch, totalLinesChanged, agg, queue, sent,
                   result, hourlyCounts, peak>>
    /\ UNCHANGED <<handed, otherVars>>

\* lines 285-292: the sha search of repository r settles
SettleShas(r) ==
    /\ pc = "shas"
    /\ BagIn(r, inflight)
    /\ commitShasToFetch' = commitShasToFetch \o fetchCommitShasForRepo(r)
    /\ inflight' = inflight (-) SetToBag({r})
    /\ idle' = idle + 1
    /\ UNCHANGED <<token, window, now, upstream, pc, repoContributionNodes,
                   commitTimestamps, totalLinesChanged, agg, queue, sent,
                   result, hourlyCounts, peak>>
    /\ UNCHANGED <<handed, otherVars>>

\* lines 299-311: the commit-detail request of item it settles
SettleStats(it) ==
    /\ pc = "stats"
    /\ BagIn(it, inflight)
    /\ totalLinesChanged' = AddLines(totalLinesChanged, it)
    /\ inflight' = inflight (-) SetToBag({it})
    /\ idle' = idle + 1
    /\ UNCHANGED <<token, window, now, upstream, pc, repoContributionNodes,
                   commitTimestamps, commitShasToFetch, agg, queue, sent,
                   result, hourlyCounts, peak>>
    /\ UNCHANGED <<handed, otherVars>>

\* a worker whose fn returned never comes back for the next item
TakeNextStalled ==
    /\ idle > 0
    /\ queue # <<>>
    /\ UNCHANGED vars

\* lines 59-63: a worker whose fn returned shifts the next item and calls fn
TakeNext ==
    /\ idle > 0
    /\ queue # <<>>
    /\ queue' = Tail(queue)
    /\ inflight' = inflight (+) SetToBag({Head(queue)})
    /\ handed' = Append(handed, Head(queue))
    /\ idle' = idle - 1
    /\ sent' = IF pc = "stats" THEN [sent EXCEPT !.detail = @ + 1]
               ELSE [sent EXCEPT !.search = @ + 1]
    /\ UNCHANGED <<token, window, now, upstream, pc, repoContributionNodes,
                   commitTimestamps, commitShasToFetch, totalLinesChanged, agg,
                   result, hourlyCounts, peak>>
    /\ UNCHANGED otherVars

\* a worker ends after its first item, whatever is left in the queue
WorkerExitEarly ==
    /\ idle > 0
    /\ idle' = idle - 1
    /\ UNCHANGED <<token, window, now, upstream, pc, repoContributionNodes,
                   commitTimestamps, commitShasToFetch, totalLinesChanged, agg,
                   queue, inflight, sent, result, hourlyCounts, peak>>
    /\ UNCHANGED <<handed, otherVars>>

\* lines 60-61: the queue is empty, the worker ends
WorkerExit ==
    /\ idle > 0
    /\ queue = <<>>
    /\ idle' = idle - 1
    /\ UNCHANGED <<token, window, now, upstream, pc, repoContributionNodes,
                   commitTimestamps, commitShasToFetch, totalLinesChanged, agg,
                   queue, inflight, sent, result, hourlyCounts, peak>>
    /\ UNCHANGED <<handed, otherVars>>

\* lines 227-263
Aggregate(timestamps) ==
    \* counts and peak range over one-element sets: each is computed once
    CHOOSE a \in
        { [intervalCounts |-> counts,
           commitsCount |-> Len(timestamps),
           mostActiveInterval |-> peakAt,
           mostActiveHour |-> MostActiveHour(peakAt, IntervalSize)] :
             <<counts, peakAt>> \in
                 { <<c, MostActiveInterval(c, IntervalCount)>> :
                       c \in { Bucketize(timestamps, ZeroCounts(IntervalCount)) } } } :
        TRUE

\* lines 225-284: the first pool is done; the buckets and the peak are
\* computed and the second pool is created.  commitTimestamps is not read
\* after line 242, so the model drops it here.  new Array at line 228 may
\* throw, which nothing catches.
TimestampsDone ==
    /\ pc = "timestamps"
    /\ PoolIdle
    /\ IF ArrayLengthValid(IntervalCount)
       THEN /\ agg' = Aggregate(commitTimestamps)
            /\ commitTimestamps' = <<>>
            /\ queue' = PoolQueue(repoContributionNodes, RepoConcurrency)
            /\ inflight' = PoolInflight(repoContributionNodes, RepoConcurrency)
            /\ handed' = PoolHanded(repoContributionNodes, RepoConcurrency)
            /\ sent' = [sent EXCEPT !.search = @ + PoolWorkers(repoContributionNodes, RepoConcurrency)]
            /\ pc' = "shas"
       ELSE /\ pc' = "raised"
            /\ UNCHANGED <<agg, commitTimestamps, queue, inflight, sent, handed>>
    /\ UNCHANGED <<token, window, now, upstream, repoContributionNodes,
                   commitShasToFetch, totalLinesChanged, idle, result,
                   hourlyCounts, peak>>
    /\ UNCHANGED otherVars

\* the result listing only the repositories whose commit search succeeded
MetricsOfSearched ==
    [commits_count |-> agg.commitsCount,
     prs_count |-> Totals.prs,
     issues_count |-> Totals.issues,
     reviews_count |-> Totals.reviews,
     repos |-> SelectSeq(repoContributionNodes,
                         LAMBDA r : upstream.repos[r].ts = "ok"),
     lines_changed |-> totalLinesChanged,
     most_active_hour |-> agg.mostActiveHour,
     hourly_counts |-> agg.intervalCounts,
     interval_size |-> IntervalSize]

\* lines 327-337; repoEntries holds one summary per node, in the same order
Metrics ==
    [commits_count |-> agg.commitsCount,
     prs_count |-> Totals.prs,
     issues_count |-> Totals.issues,
     reviews_count |-> Totals.reviews,
     repos |-> repoContributionNodes,
     lines_changed |-> totalLinesChanged,
     most_active_hour |-> agg.mostActiveHour,
     hourly_counts |-> agg.intervalCounts,
     interval_size |-> IntervalSize]

\* lines 293-298: the second pool is done and commits were gathered
ShasDoneSome ==
    /\ pc = "shas"
    /\ PoolIdle
    /\ Len(commitShasToFetch) > 0
    /\ queue' = PoolQueue(commitShasToFetch, StatConcurrency)
    /\ inflight' = PoolInflight(commitShasToFetch, StatConcurrency)
    /\ handed' = PoolHanded(commitShasToFetch, StatConcurrency)
    /\ sent' = [sent EXCEPT !.detail = @ + PoolWorkers(commitShasToFetch, StatConcurrency)]
    /\ pc' = "stats"
    /\ UNCHANGED <<token, window, now, upstream, repoContributionNodes,
                   commitTimestamps, commitShasToFetch, totalLinesChanged, agg,
                   idle, result, hourlyCounts, peak>>
    /\ UNCHANGED otherVars

\* lines 293-296, 315-337: no commit was gathered, the result is returned
ShasDoneNone ==
    /\ pc = "shas"
    /\ PoolIdle
    /\ Len(commitShasToFetch) = 0
    /\ result' = Some(Metrics)
    /\ pc' = "done"
    /\ UNCHANGED <<token, window, now, upstream, repoContributionNodes,
                   commitTimestamps, commitShasToFetch, totalLinesChanged, agg,
                   queue, inflight, idle, sent, hourlyCounts, peak>>
    /\ UNCHANGED <<handed, otherVars>>

\* lines 313-337: the third pool is done, the result is returned
StatsDone ==
    /\ pc = "stats"
    /\ PoolIdle
    /\ result' = Some(Metrics)
    /\ pc' = "done"
    /\ UNCHANGED <<token, window, now, upstream, repoContributionNodes,
                   commitTimestamps, commitShasToFetch, totalLinesChanged, agg,
                   queue, inflight, idle, sent, hourlyCounts, peak>>
    /\ UNCHANGED <<handed, otherVars>>

\* date.ts 89-102, applied to an array of its own
FindPeak ==
    /\ pc = "probe"
    /\ peak' = <<findMostActiveHour(hourlyCounts)>>
    /\ pc' = "probed"
    /\ UNCHANGED <<token, window, now, upstream, repoContributionNodes,
                   commitTimestamps, commitShasToFetch, totalLinesChanged, agg,
                   queue, inflight, idle, sent, result, hourlyCounts>>
    /\ UNCHANGED <<handed, otherVars>>

Next ==
    \/ RejectToken
    \/ SendAggregate
    \/ AggregateFails
    \/ AggregateNoUser
    \/ AggregateOk
    \/ \E r \in 1..Len(upstream.repos) : SettleTimestamps(r)
    \/ \E r \in 1..Len(upstream.repos) : SettleShas(r)
    \/ \E it \in BagToSet(inflight) : SettleStats(it)
    \/ TakeNext
    \/ WorkerExit
    \/ TimestampsDone
    \/ ShasDoneSome
    \/ ShasDoneNone
    \/ StatsDone
    \/ FindPeak

Spec == Init /\ [][Next]_vars

\* runs over every duration from 1 hour to 30 days, durations in days,
\* durations that do not parse, and explicit bounds
InitSpans ==
    /\ token \in Tokens
    /\ window \in WideWindows
    /\ now \in WideNows
    /\ upstream \in IF token = "" THEN { [agg |-> "ok", repos |-> <<>>] }
                    ELSE SpanUpstreams(From, To)
    /\ pc = "start"
    /\ hourlyCounts = <<>>

InitWindow == (InitSpans \/ InitProbe) /\ InitLocals /\ OthersIdle

SpecWindow == InitWindow /\ [][Next]_vars

----------------------------------------------------------------------------
(* The programs other than fetchGithubMetrics run on their own: while one of
   them runs, fetchGithubMetrics is not called. *)

\* fetchGithubMetrics of githubFetcher.ts is not called
FetchIdle ==
    /\ token = "ghp"
    /\ window = TimeWindow(Null, Null, Null)
    /\ now \in Nows
    /\ upstream = [agg |-> "ok", repos |-> <<>>]
    /\ pc = "idle"
    /\ hourlyCounts = <<>>

----------------------------------------------------------------------------
(* getHourInTargetTZ and parseOffsetFromIso: svgToPng.ts 56-99.
   tz holds the arguments of one call, the process's local offset, the hour
   cycle the runtime picks for { hour12: false } in en-US, and the value
   returned. *)

\* Date.prototype.getUTCHours of the instant t
getUTCHours(t) == (t \div MinutesPerHour) % HoursPerDay

\* the zones the runtime resolves, with their offset from UTC in minutes;
\* Intl.DateTimeFormat throws a RangeError for any other name
ZoneOffset ==
    [z \in {"UTC", "Asia/Kolkata", "America/Los_Angeles"} |->
        IF z = "UTC" THEN 0
        ELSE IF z = "Asia/Kolkata" THEN 5 * MinutesPerHour + 30
        ELSE -(8 * MinutesPerHour)]

\* a zone name no runtime resolves
UnknownZone == "Mars/Phobos"

\* line 78: the constructor succeeds
ZoneResolves(timeZone) == timeZone \in DOMAIN ZoneOffset

\* lines 78-82: the hour part of formatToParts, parsed.  With hour12: false
\* the runtime uses the 24-hour cycle of the locale: h23 (midnight is 0) or
\* h24 (midnight is 24), depending on the runtime.
IntlHour(t, timeZone, hourCycle) ==
    LET h == getUTCHours(t + ZoneOffset[timeZone])
    IN  IF h = 0 /\ hourCycle = "h24" THEN HoursPerDay ELSE h

\* \d{2} read by parseInt(.., 10)
TwoDigits(a, b) == DigitVal(a) * 10 + DigitVal(b)

\* lines 56-64: /([+-])(\d{2}):?(\d{2})$/ on the string; Null for null
parseOffsetFromIso(iso) ==
    IF iso = Null \/ iso[1] = <<>> THEN Null
    ELSE LET s == iso[1]
             n == Len(s)
             sign(c) == IF c = "-" THEN -1 ELSE 1
         IN  IF /\ n >= 6
                /\ s[n - 5] \in {"+", "-"}
                /\ IsDigit(s[n - 4]) /\ IsDigit(s[n - 3])
                /\ s[n - 2] = ":"
                /\ IsDigit(s[n - 1]) /\ IsDigit(s[n])
             THEN Some(sign(s[n - 5]) *
                       (TwoDigits(s[n - 4], s[n - 3]) * MinutesPerHour
                          + TwoDigits(s[n - 1], s[n])))
             ELSE IF /\ n >= 5
                     /\ s[n - 4] \in {"+", "-"}
                     /\ IsDigit(s[n - 3]) /\ IsDigit(s[n - 2])
                     /\ IsDigit(s[n - 1]) /\ IsDigit(s[n])
             THEN Some(sign(s[n - 4]) *
                       (TwoDigits(s[n - 3], s[n - 2]) * MinutesPerHour
                          + TwoDigits(s[n - 1], s[n])))
             ELSE Null

\* lines 70-99.  ts is Null for a string new Date cannot read; timeZone is
\* Null for undefined.  The result is Null for null.
getHourInTargetTZ(ts, windowFromIso, timeZone, local, hourCycle) ==
    IF ts = Null THEN Null
    ELSE IF timeZone # Null /\ timeZone[1] # "" /\ ZoneResolves(timeZone[1])
    THEN Some(IntlHour(ts[1], timeZone[1], hourCycle))
    ELSE LET offsetMinutes == parseOffsetFromIso(windowFromIso)
         IN  IF offsetMinutes # Null
             THEN Some(getUTCHours(ts[1] + offsetMinutes[1]))
             ELSE Some(getUTCHours(ts[1] + local))

\* a date and a time of day without a zone: "2024-01-15T10:30:00"
IsoLocal ==
    <<"2", "0", "2", "4", "-", "0", "1", "-", "1", "5", "T",
      "1", "0", ":", "3", "0", ":", "0", "0">>

\* a date alone: "2024-01-15"
IsoDate == SubSeq(IsoLocal, 1, 10)

\* two decimal digits of n < 100
Pad2(n) == <<Digits[(n \div 10) + 1], Digits[(n % 10) + 1]>>

\* an offset of o minutes written +hh:mm (or +hhmm)
FormatOffset(o, colon) ==
    LET a == IF o < 0 THEN -o ELSE o
    IN  <<IF o < 0 THEN "-" ELSE "+">> \o Pad2(a \div MinutesPerHour)
          \o (IF colon THEN <<":">> ELSE <<>>) \o Pad2(a % MinutesPerHour)

\* offsets of a from string, in minutes
Offsets == { -(8 * MinutesPerHour), 0, 5 * MinutesPerHour + 30, 5 * MinutesPerHour + 45 }

\* the from strings handed in: none, empty, UTC ("Z"), no zone, a date
\* alone, an offset of hours only ("+05"), and every offset in both spellings
FromStrings ==
    { Null, Some(<<>>), Some(IsoLocal \o <<"Z">>), Some(IsoLocal), Some(IsoDate),
      Some(IsoLocal \o <<"+", "0", "5">>) }
      \cup { Some(IsoLocal \o FormatOffset(o, c)) : o \in Offsets, c \in BOOLEAN }

\* the timestamps: four instants of one day, and a string that is no date
TimestampArgs ==
    { Null } \cup
    { Some(Midnight + m) : m \in { 15, 12 * MinutesPerHour + 30,
                                   18 * MinutesPerHour + 45,
                                   23 * MinutesPerHour + 50 } }

TimeZoneArgs == { Null, Some(""), Some(UnknownZone) } \cup { Some(z) : z \in DOMAIN ZoneOffset }

LocalOffsets == { -(8 * MinutesPerHour), 0, 5 * MinutesPerHour + 30 }

HourCycles == { "h23", "h24" }

InitTz ==
    /\ FetchIdle /\ InitLocals
    /\ legacy = NotRun /\ cli = NotRun /\ xClient = NotRun /\ render = NotRun
    /\ tz \in [pc : {"call"}, tsIso : TimestampArgs, windowFromIso : FromStrings,
               timeZone : TimeZoneArgs, local : LocalOffsets,
               hourCycle : HourCycles, hour : {Null}]

\* lines 70-99: the call returns
GetHour ==
    /\ tz.pc = "call"
    /\ tz' = [tz EXCEPT !.pc = "returned",
                        !.hour = getHourInTargetTZ(tz.tsIso, tz.windowFromIso,
                                     tz.timeZone, tz.local, tz.hourCycle)]
    /\ UNCHANGED <<fetchVars, legacy, cli, xClient, render>>

NextTz == GetHour

SpecTz == InitTz /\ [][NextTz]_vars

----------------------------------------------------------------------------
(* main: cli/main.ts 20-139.  cli holds the command line, the configuration,
   the environment and the outcomes of the calls main makes, then its
   position, the files written and the calls of postToX. *)

\* lines 127-130
XSecrets == {"X_CONSUMER_KEY", "X_CONSUMER_SECRET", "X_ACCESS_TOKEN", "X_ACCESS_SECRET"}

\* the environments: every secret, none, and each one missing
SecretSets == { XSecrets, {} } \cup { XSecrets \ {s} : s \in XSecrets }

\* cfg.visual is optional (Config, visual?: any): absent, without a theme,
\* or with width and theme
Visuals == {"absent", "noTheme", "full"}

CliRuns ==
    [pc : {"start"},
     dryRun : BOOLEAN,
     config : {"missing", "noUsername", "ok"},
     githubToken : BOOLEAN,
     fetch : {"ok", "raise"},
     commits_count : {0, MaxCount},
     visual : Visuals,
     sharp : {"ok", "raise"},
     publish : BOOLEAN,
     message_template : BOOLEAN,
     secrets : SecretSets,
     post : {"ok", "raise"},
     files : {{}},
     posted : {0}]

InitCli ==
    /\ FetchIdle /\ InitLocals
    /\ legacy = NotRun /\ tz = NotRun /\ xClient = NotRun /\ render = NotRun
    /\ cli \in CliRuns

\* lines 35-44: the configuration is loaded and checked
CliLoadConfig ==
    /\ cli.pc = "start"
    /\ cli' = [cli EXCEPT !.pc = IF cli.config = "ok" THEN "auth" ELSE "exit1"]
    /\ UNCHANGED <<fetchVars, legacy, tz, xClient, render>>

\* line 56: requireEnv('GITHUB_TOKEN')
CliAuth ==
    /\ cli.pc = "auth"
    /\ cli' = [cli EXCEPT !.pc = IF cli.githubToken THEN "fetch" ELSE "exit1"]
    /\ UNCHANGED <<fetchVars, legacy, tz, xClient, render>>

\* lines 66-70: fetchGithubMetrics returns the metrics or raises
CliFetch ==
    /\ cli.pc = "fetch"
    /\ cli' = [cli EXCEPT !.pc = IF cli.fetch = "ok" THEN "render" ELSE "exit1"]
    /\ UNCHANGED <<fetchVars, legacy, tz, xClient, render>>

\* lines 75-85: the SVG is rendered (renderSVG has defaults for a missing
\* width and theme) and written
CliRender ==
    /\ cli.pc = "render"
    /\ cli' = [cli EXCEPT !.pc = "convert", !.files = @ \cup {"summary.svg"}]
    /\ UNCHANGED <<fetchVars, legacy, tz, xClient, render>>

\* lines 90-99: cfg.visual.width and cfg.visual.theme.background are read (a
\* TypeError when visual or theme is absent), the SVG is converted (sharp may
\* raise) and the PNG is written
CliConvert ==
    /\ cli.pc = "convert"
    /\ IF cli.visual = "full" /\ cli.sharp = "ok"
       THEN cli' = [cli EXCEPT !.pc = "written", !.files = @ \cup {"summary.png"}]
       ELSE cli' = [cli EXCEPT !.pc = "exit1"]
    /\ UNCHANGED <<fetchVars, legacy, tz, xClient, render>>

\* lines 109-112
CliDryRun ==
    /\ cli.pc = "written"
    /\ cli.dryRun
    /\ cli' = [cli EXCEPT !.pc = "exit0"]
    /\ UNCHANGED <<fetchVars, legacy, tz, xClient, render>>

\* lines 117-120
CliSkipPublish ==
    /\ cli.pc = "written"
    /\ ~cli.dryRun
    /\ ~cli.publish \/ cli.commits_count = 0
    /\ cli' = [cli EXCEPT !.pc = "exit0"]
    /\ UNCHANGED <<fetchVars, legacy, tz, xClient, render>>

\* postToX is called without the tests of lines 122-130
CliPublishUnchecked ==
    /\ cli.pc = "written"
    /\ ~cli.dryRun
    /\ cli.publish /\ cli.commits_count # 0
    /\ cli' = [cli EXCEPT !.pc = "post", !.posted = @ + 1]
    /\ UNCHANGED <<fetchVars, legacy, tz, xClient, render>>

\* lines 122-133: the template and the secrets are checked, postToX is called
CliPublish ==
    /\ cli.pc = "written"
    /\ ~cli.dryRun
    /\ cli.publish /\ cli.commits_count # 0
    /\ IF cli.message_template /\ cli.secrets = XSecrets
       THEN cli' = [cli EXCEPT !.pc = "post", !.posted = @ + 1]
       ELSE cli' = [cli EXCEPT !.pc = "exit1"]
    /\ UNCHANGED <<fetchVars, legacy, tz, xClient, render>>

\* lines 133-138: postToX settles
CliPostSettles ==
    /\ cli.pc = "post"
    /\ cli' = [cli EXCEPT !.pc = IF cli.post = "ok" THEN "exit0" ELSE "exit1"]
    /\ UNCHANGED <<fetchVars, legacy, tz, xClient, render>>

NextCli ==
    \/ CliLoadConfig
    \/ CliAuth
    \/ CliFetch
    \/ CliRender
    \/ CliConvert
    \/ CliDryRun
    \/ CliSkipPublish
    \/ CliPublish
    \/ CliPostSettles

SpecCli == InitCli /\ [][NextCli]_vars

----------------------------------------------------------------------------
(* The collector of svgToPng.ts: fetchGithubMetrics 151-364, withConcurrency
   135-147.  Its SHA lists are only counted, pushed and cut (no SHA is ever
   compared), so the model keeps their lengths.  legacy holds the arguments
   and upstream responses of one run and the locals of the run. *)

\* one entry of commitContributionsByRepository: the commits of the window
\* (total_count of the search, and what the listing holds), the page at
\* which the search fails (0: never) and how, and what the listing answers
LRepo(present, avail, failAt, fail, fb) ==
    [present |-> present, avail |-> avail, failAt |-> failAt, fail |-> fail, fb |-> fb]

\* items of page `page` of a result of `avail` entries, per_page = 100
PageItems(avail, page) ==
    IF avail <= PerPage * (page - 1) THEN 0
    ELSE Min(PerPage, avail - PerPage * (page - 1))

\* lines 291-296: every item is pushed until the list holds
\* MAX_COMMITS_PER_REPO entries (on entry it holds fewer, line 262)
PushItems(shas, items) == Min(shas + items, MAX_COMMITS_PER_REPO)

\* lines 277-280: an entry is pushed unless the gathered commits and the
\* list together have reached MAX_COMMITS
PushListing(shas, data, processedCommits) ==
    IF processedCommits + shas >= MAX_COMMITS THEN shas
    ELSE Min(shas + data, MAX_COMMITS - processedCommits)

\* line 262
WhileContinues(l) ==
    /\ l.keepGoing
    /\ l.shas < MAX_COMMITS_PER_REPO
    /\ l.processedCommits + l.shas < MAX_COMMITS

\* line 319
CollectorStops(l) == l.processedCommits >= MAX_COMMITS

\* every SHA returned is pushed, whatever has been gathered
PushedAll(l) == l.shas

\* lines 322-326: the SHAs pushed to commitShasToFetch, of those returned
Pushed(l) ==
    IF CollectorStops(l) THEN 0
    ELSE Min(l.shas, MAX_COMMITS - l.processedCommits)

\* the repository the loop of line 318 is at
LegacyRepo(l) == l.up.repos[l.nodes[l.r]]

\* what the search of the current page answers
SearchOutcome(l) ==
    IF LegacyRepo(l).failAt = l.page THEN LegacyRepo(l).fail ELSE "ok"

\* line 367
emptyMetricsOfCollector == [commits_count |-> 0]

RECURSIVE CollectOccurred(_, _, _)
\* lines 202-218: the occurredAt of the contributions of every repository
\* that is not null, in upstream order, from entry k on
CollectOccurred(up, k, acc) ==
    IF k > Len(up.repos) THEN acc
    ELSE CollectOccurred(up, k + 1,
             IF up.repos[k].present THEN acc \o up.occurred[k] ELSE acc)

\* line 227: hourlyCounts[hour] = (hourlyCounts[hour] ?? 0) + 1; an index
\* one past the end makes the array one entry longer
CountHour(counts, hour) ==
    IF hour + 1 \in DOMAIN counts THEN [counts EXCEPT ![hour + 1] = @ + 1]
    ELSE Append(counts, 1)

RECURSIVE LegacyBucketize(_, _, _, _)
\* lines 224-228: one pass over the timestamps from k on, in array order
LegacyBucketize(timestamps, k, counts, env) ==
    IF k > Len(timestamps) THEN counts
    ELSE LET hour == getHourInTargetTZ(timestamps[k], env.from,
                                       Some(env.timezone), env.local, env.hourCycle)
         IN  LegacyBucketize(timestamps, k + 1,
                 IF hour = Null THEN counts ELSE CountHour(counts, hour[1]), env)

\* lines 231-238: the scan starts from a maximum of -1, so the first bucket
\* always beats it
LegacyMostActiveHour(counts) == PeakLoop(counts, 0, HoursPerDay, -1, Null).best

\* lines 357-363, without repos
LegacyMetrics(l) ==
    [commits_count |-> l.up.total, lines_changed |-> l.totalLinesChanged,
     most_active_hour |-> l.mostActiveHour, hourly_counts |-> l.hourlyCounts]

\* the timezone argument, the from string of the window (line 159), the
\* local offset of the process and the hour cycle of the runtime
LegacyEnv(timezone, from, local, hourCycle) ==
    [timezone |-> timezone, from |-> from, local |-> local, hourCycle |-> hourCycle]

\* from as isoNowMinus writes it (toISOString: it ends with Z), and UTC
DefaultEnv == LegacyEnv("UTC", Some(IsoLocal \o <<"Z">>), 0, "h23")

\* the locals of the run before its first statement
LegacyLocals(tok, up, env) ==
    [pc |-> "start", token |-> tok, up |-> up, env |-> env, nodes |-> <<>>, r |-> 1,
     commitTimestamps |-> <<>>, hourlyCounts |-> <<>>, mostActiveHour |-> Null,
     page |-> 1, keepGoing |-> TRUE, shas |-> 0,
     processedCommits |-> 0, commitShasToFetch |-> 0,
     sent |-> [graphql |-> 0, search |-> 0, listing |-> 0, detail |-> 0],
     idx |-> 0, inflight |-> 0, idle |-> 0,
     totalLinesChanged |-> 0, result |-> Null]

\* a repository whose requests all succeed
Plain(avail) == LRepo(TRUE, avail, 0, "ok", "ok")

\* repository lists whose commits fit in two pages: every kind of failure of
\* the search and of the listing, and a repository that is null
LegacySmallLists ==
    { <<>>,
      << Plain(MaxCount) >>,
      << Plain(PerPage + 20) >>,
      << Plain(0), LRepo(FALSE, 0, 0, "ok", "ok"), Plain(MaxCount) >>,
      << LRepo(TRUE, MaxCount, 1, "status", "ok") >>,
      << LRepo(TRUE, MaxCount, 1, "status", "status"), Plain(MaxCount) >>,
      << LRepo(TRUE, MaxCount, 1, "status", "throw"), Plain(MaxCount) >>,
      << LRepo(TRUE, MaxCount, 1, "throw", "ok"), Plain(MaxCount) >> }

\* repository lists that reach the caps
LegacyLargeLists ==
    LET big == 3 * PerPage
        third == PerPage + 20
    IN  { << Plain(PerPage) >>,
          << Plain(MAX_COMMITS_PER_REPO) >>,
          << Plain(MAX_COMMITS) >>,
          << Plain(big) >>,
          << Plain(third), Plain(third), Plain(MaxCount) >>,
          << Plain(PerPage), Plain(PerPage), Plain(MaxCount) >>,
          << Plain(MAX_COMMITS_PER_REPO), Plain(big), Plain(big) >>,
          \* the search fails on the first page
          << LRepo(TRUE, big, 1, "status", "ok"), Plain(third) >>,
          \* the search fails on the second page
          << LRepo(TRUE, big, 2, "status", "ok") >>,
          << Plain(PerPage), LRepo(TRUE, big, 2, "status", "ok"), Plain(MaxCount) >>,
          << LRepo(TRUE, big, 2, "status", "status"), Plain(third) >>,
          << LRepo(TRUE, big, 2, "throw", "ok"), Plain(third) >> }

\* the responses of the hosting service to one run, for the given lists
LegacyUpstreams(lists) ==
    { [agg |-> a, total |-> 0, repos |-> <<>>, detail |-> "ok", occurred |-> <<>>] :
          a \in {"nouser", "status", "throw"} }
    \cup { [agg |-> "ok", total |-> MaxCount, repos |-> rs, detail |-> "ok",
            occurred |-> [i \in DOMAIN rs |-> <<>>]] : rs \in lists }
    \cup { [agg |-> "ok", total |-> MaxCount, repos |-> << Plain(PerPage + 20) >>,
            detail |-> d, occurred |-> << <<>> >>] : d \in {"status", "throw"} }

\* contributions at 12:30 (twice) and 18:45 UTC, and one whose occurredAt is
\* no date
SomeOccurred ==
    << Some(Midnight + 12 * MinutesPerHour + 30), Null,
       Some(Midnight + 18 * MinutesPerHour + 45),
       Some(Midnight + 12 * MinutesPerHour + 30) >>

\* responses whose repositories carry contribution timestamps
LegacyHourUpstreams ==
    { [agg |-> "ok", total |-> MaxCount, repos |-> rs, detail |-> "ok",
       occurred |-> [i \in DOMAIN rs |-> SomeOccurred]] :
          rs \in { << Plain(MaxCount) >>,
                   << Plain(0), LRepo(FALSE, 0, 0, "ok", "ok"), Plain(MaxCount) >> } }

\* a named zone or none, from with or without an offset, both hour cycles
LegacyHourEnvs ==
    { LegacyEnv(z, f, 0, hc) :
        z \in {"", "Asia/Kolkata"},
        f \in { Some(IsoLocal \o <<"Z">>),
                Some(IsoLocal \o FormatOffset(5 * MinutesPerHour + 30, TRUE)) },
        hc \in HourCycles }

\* the runs of the collector that bucket contribution timestamps
LegacyHourRuns ==
    { LegacyLocals("ghp", up, env) : up \in LegacyHourUpstreams, env \in LegacyHourEnvs }

\* the runs of the collector over the given lists
LegacyRuns(lists) ==
    UNION { { LegacyLocals(tok, up, DefaultEnv) :
                up \in IF tok = ""
                       THEN { [agg |-> "ok", total |-> 0, repos |-> <<>>,
                               detail |-> "ok", occurred |-> <<>>] }
                       ELSE LegacyUpstreams(lists) } : tok \in Tokens }

InitLegacy ==
    /\ FetchIdle /\ InitLocals
    /\ tz = NotRun /\ cli = NotRun /\ xClient = NotRun /\ render = NotRun
    /\ legacy \in LegacyRuns(LegacySmallLists \cup LegacyLargeLists) \cup LegacyHourRuns

\* line 157
LegacyRejectToken ==
    /\ legacy.pc = "start"
    /\ legacy.token = ""
    /\ legacy' = [legacy EXCEPT !.pc = "raised"]
    /\ UNCHANGED <<fetchVars, tz, cli, xClient, render>>

\* lines 159-187: the aggregate query is sent
LegacySendAggregate ==
    /\ legacy.pc = "start"
    /\ legacy.token # ""
    /\ legacy' = [legacy EXCEPT !.pc = "graphql", !.sent.graphql = @ + 1]
    /\ UNCHANGED <<fetchVars, tz, cli, xClient, render>>

\* graphqlFetch, lines 100-118: a non-2xx response or a failed fetch throws
LegacyAggregateFails ==
    /\ legacy.pc = "graphql"
    /\ legacy.up.agg \in {"status", "throw"}
    /\ legacy' = [legacy EXCEPT !.pc = "raised"]
    /\ UNCHANGED <<fetchVars, tz, cli, xClient, render>>

\* lines 188-192
LegacyAggregateNoUser ==
    /\ legacy.pc = "graphql"
    /\ legacy.up.agg = "nouser"
    /\ legacy' = [legacy EXCEPT !.pc = "done", !.result = Some(emptyMetricsOfCollector)]
    /\ UNCHANGED <<fetchVars, tz, cli, xClient, render>>

\* lines 194-252: the repositories are listed, the contribution timestamps
\* are bucketed by hour and the most active hour is picked
LegacyAggregateOk ==
    /\ legacy.pc = "graphql"
    /\ legacy.up.agg = "ok"
    /\ LET timestamps == CollectOccurred(legacy.up, 1, <<>>)
           counts == LegacyBucketize(timestamps, 1, ZeroCounts(HoursPerDay), legacy.env)
       IN  legacy' = [legacy EXCEPT !.pc = "repos", !.r = 1,
                                    !.nodes = SelectIdx(legacy.up.repos, 1, <<>>),
                                    !.commitTimestamps = timestamps,
                                    !.hourlyCounts = counts,
                                    !.mostActiveHour = LegacyMostActiveHour(counts)]
    /\ UNCHANGED <<fetchVars, tz, cli, xClient, render>>

\* lines 318-321 and 258-260: the next repository is taken and
\* fetchCommitShasForRepo is called on it
LegacyCallFetch ==
    /\ legacy.pc = "repos"
    /\ legacy.r <= Len(legacy.nodes)
    /\ ~CollectorStops(legacy)
    /\ legacy' = [legacy EXCEPT !.pc = "page", !.page = 1, !.keepGoing = TRUE,
                                !.shas = 0]
    /\ UNCHANGED <<fetchVars, tz, cli, xClient, render>>

\* lines 318-319: the loop over the repositories ends
LegacyLoopEnds ==
    /\ legacy.pc = "repos"
    /\ legacy.r > Len(legacy.nodes) \/ CollectorStops(legacy)
    /\ legacy' = [legacy EXCEPT !.pc = "collected"]
    /\ UNCHANGED <<fetchVars, tz, cli, xClient, render>>

\* lines 262-264: the search of the current page is sent
LegacySearch ==
    /\ legacy.pc = "page"
    /\ WhileContinues(legacy)
    /\ legacy' = [legacy EXCEPT !.pc = "search", !.sent.search = @ + 1]
    /\ UNCHANGED <<fetchVars, tz, cli, xClient, render>>

\* lines 262 and 304: the loop ends
LegacyWhileExit ==
    /\ legacy.pc = "page"
    /\ ~WhileContinues(legacy)
    /\ legacy' = [legacy EXCEPT !.pc = "return"]
    /\ UNCHANGED <<fetchVars, tz, cli, xClient, render>>

\* lines 289-301: the search answers with a page of items
LegacySearchOk ==
    /\ legacy.pc = "search"
    /\ SearchOutcome(legacy) = "ok"
    /\ LET items == PageItems(LegacyRepo(legacy).avail, legacy.page)
           more == ~(PerPage * legacy.page >= LegacyRepo(legacy).avail
                       \/ items < PerPage)
       IN  legacy' = [legacy EXCEPT !.pc = "page",
                                    !.shas = PushItems(legacy.shas, items),
                                    !.keepGoing = more,
                                    !.page = IF more THEN @ + 1 ELSE @]
    /\ UNCHANGED <<fetchVars, tz, cli, xClient, render>>

\* lines 266-270: the search answers with a non-2xx status, the listing of
\* the same page is requested
LegacySearchStatus ==
    /\ legacy.pc = "search"
    /\ SearchOutcome(legacy) = "status"
    /\ legacy' = [legacy EXCEPT !.pc = "listing", !.sent.listing = @ + 1]
    /\ UNCHANGED <<fetchVars, tz, cli, xClient, render>>

\* restJson rejects; the catch of lines 327-329 drops the repository
LegacySearchThrows ==
    /\ legacy.pc = "search"
    /\ SearchOutcome(legacy) = "throw"
    /\ legacy' = [legacy EXCEPT !.pc = "repos", !.r = @ + 1]
    /\ UNCHANGED <<fetchVars, tz, cli, xClient, render>>

\* lines 275-286: the listing answers with a page of entries; the loop is
\* left whatever the page held
LegacyListingOk ==
    /\ legacy.pc = "listing"
    /\ LegacyRepo(legacy).fb = "ok"
    /\ LET data == PageItems(LegacyRepo(legacy).avail, legacy.page)
       IN  legacy' = [legacy EXCEPT !.pc = "return",
                                    !.shas = PushListing(legacy.shas, data,
                                                         legacy.processedCommits),
                                    !.keepGoing = ~(data < PerPage),
                                    !.page = IF data < PerPage THEN @ ELSE @ + 1]
    /\ UNCHANGED <<fetchVars, tz, cli, xClient, render>>

\* lines 271-274: the listing answers with a non-2xx status
LegacyListingStatus ==
    /\ legacy.pc = "listing"
    /\ LegacyRepo(legacy).fb = "status"
    /\ legacy' = [legacy EXCEPT !.pc = "return"]
    /\ UNCHANGED <<fetchVars, tz, cli, xClient, render>>

\* restJson rejects; the catch of lines 327-329 drops the repository
LegacyListingThrows ==
    /\ legacy.pc = "listing"
    /\ LegacyRepo(legacy).fb = "throw"
    /\ legacy' = [legacy EXCEPT !.pc = "repos", !.r = @ + 1]
    /\ UNCHANGED <<fetchVars, tz, cli, xClient, render>>

\* lines 321-326: fetchCommitShasForRepo returns; its SHAs are pushed until
\* MAX_COMMITS are gathered
LegacyReturn ==
    /\ legacy.pc = "return"
    /\ legacy' = [legacy EXCEPT !.pc = "repos", !.r = @ + 1,
                                !.commitShasToFetch = @ + Pushed(legacy),
                                !.processedCommits = @ + Pushed(legacy)]
    /\ UNCHANGED <<fetchVars, tz, cli, xClient, render>>

\* lines 333, 345-363: nothing was gathered, the result is returned
LegacyNoCommits ==
    /\ legacy.pc = "collected"
    /\ legacy.commitShasToFetch = 0
    /\ legacy' = [legacy EXCEPT !.pc = "done", !.result = Some(LegacyMetrics(legacy))]
    /\ UNCHANGED <<fetchVars, tz, cli, xClient, render>>

\* lines 332-335 and 136-146: the pool is created; each of the 5 workers
\* takes an index, and calls fn if the index is in range
LegacyPoolStart ==
    /\ legacy.pc = "collected"
    /\ legacy.commitShasToFetch > 0
    /\ LET first == Min(legacy.commitShasToFetch, StatConcurrency)
       IN  legacy' = [legacy EXCEPT !.pc = "stats", !.idx = StatConcurrency,
                                    !.inflight = first, !.idle = 0,
                                    !.sent.detail = @ + first]
    /\ UNCHANGED <<fetchVars, tz, cli, xClient, render>>

\* lines 336-343 and 307-315: a commit-detail request settles
LegacySettleStats ==
    /\ legacy.pc = "stats"
    /\ legacy.inflight > 0
    /\ legacy' = [legacy EXCEPT !.inflight = @ - 1, !.idle = @ + 1,
                                !.totalLinesChanged =
                                    IF legacy.up.detail = "ok" THEN @ + 1 ELSE @]
    /\ UNCHANGED <<fetchVars, tz, cli, xClient, render>>

\* lines 139-142: a worker whose fn returned takes the next index, in range
LegacyTakeNext ==
    /\ legacy.pc = "stats"
    /\ legacy.idle > 0
    /\ legacy.idx < legacy.commitShasToFetch
    /\ legacy' = [legacy EXCEPT !.idx = @ + 1, !.idle = @ - 1, !.inflight = @ + 1,
                                !.sent.detail = @ + 1]
    /\ UNCHANGED <<fetchVars, tz, cli, xClient, render>>

\* lines 139-141: the index taken is out of range, the worker ends
LegacyWorkerExit ==
    /\ legacy.pc = "stats"
    /\ legacy.idle > 0
    /\ legacy.idx >= legacy.commitShasToFetch
    /\ legacy' = [legacy EXCEPT !.idx = @ + 1, !.idle = @ - 1]
    /\ UNCHANGED <<fetchVars, tz, cli, xClient, render>>

\* lines 146, 349-363: every worker has ended, the result is returned
LegacyStatsDone ==
    /\ legacy.pc = "stats"
    /\ legacy.inflight = 0 /\ legacy.idle = 0
    /\ legacy' = [legacy EXCEPT !.pc = "done", !.result = Some(LegacyMetrics(legacy))]
    /\ UNCHANGED <<fetchVars, tz, cli, xClient, render>>

NextLegacy ==
    \/ LegacyRejectToken
    \/ LegacySendAggregate
    \/ LegacyAggregateFails
    \/ LegacyAggregateNoUser
    \/ LegacyAggregateOk
    \/ LegacyCallFetch
    \/ LegacyLoopEnds
    \/ LegacySearch
    \/ LegacyWhileExit
    \/ LegacySearchOk
    \/ LegacySearchStatus
    \/ LegacySearchThrows
    \/ LegacyListingOk
    \/ LegacyListingStatus
    \/ LegacyListingThrows
    \/ LegacyReturn
    \/ LegacyNoCommits
    \/ LegacyPoolStart
    \/ LegacySettleStats
    \/ LegacyTakeNext
    \/ LegacyWorkerExit
    \/ LegacyStatsDone

SpecLegacy == InitLegacy /\ [][NextLegacy]_vars

----------------------------------------------------------------------------
(* Both worker pools under fair scheduling *)

\* runs of fetchGithubMetrics whose pools have more units than workers and
\* units that fail
InitPoolRuns ==
    /\ token \in Tokens
    /\ window = TimeWindow(Null, Null, Null)
    /\ now \in Nows
    /\ upstream \in IF token = "" THEN { [agg |-> "ok", repos |-> <<>>] }
                    ELSE PoolUpstreams(From, To)
    /\ pc = "start"
    /\ hourlyCounts = <<>>

\* runs of the collector of svgToPng.ts with up to 120 commits
InitLegacyPool ==
    /\ FetchIdle /\ InitLocals
    /\ tz = NotRun /\ cli = NotRun /\ xClient = NotRun /\ render = NotRun
    /\ legacy \in LegacyRuns(LegacySmallLists)

InitPool == ((InitPoolRuns \/ InitProbe) /\ InitLocals /\ OthersIdle) \/ InitLegacyPool

NextPool == Next \/ NextLegacy

\* Every request settles (the precondition of the termination claim) and the
\* event loop runs every continuation that is ready: no step that can be
\* taken is put off for ever.
SpecPool == InitPool /\ [][NextPool]_vars /\ WF_vars(NextPool)

----------------------------------------------------------------------------
(* The conversion of the hourly counts to the display zone: utils/date.ts
   35-82, called by renderSVG (part_002 32-36).  A JavaScript number is
   modelled as a record: a finite value or NaN. *)

Num(n) == [nan |-> FALSE, v |-> n]

NaN == [nan |-> TRUE, v |-> 0]

\* a + b on numbers: NaN when either side is NaN
JsAdd(a, b) == IF a.nan \/ b.nan THEN NaN ELSE Num(a.v + b.v)

\* arr[i] as an operand of +: an index past the end reads undefined, and
\* undefined + x is NaN
Operand(arr, i) == IF i + 1 \in DOMAIN arr THEN arr[i + 1] ELSE NaN

\* date.ts 35-58: the hour of utcHour:00 UTC in the zone, as Intl formats it
convertUTCHourToTimezone(utcHour, timezone, hourCycle) ==
    IntlHour(utcHour * MinutesPerHour, timezone, hourCycle)

\* date.ts 77-79: tzCounts[tzHour] += utcHourlyCounts[utcHour]; an index one
\* past the end extends the array
ConvertStep(tzCounts, utcHourlyCounts, utcHour, tzHour) ==
    LET sum == JsAdd(Operand(tzCounts, tzHour),
                     Operand([i \in DOMAIN utcHourlyCounts |-> Num(utcHourlyCounts[i])],
                             utcHour))
    IN  IF tzHour + 1 \in DOMAIN tzCounts
        THEN [tzCounts EXCEPT ![tzHour + 1] = sum]
        ELSE Append(tzCounts, sum)

RECURSIVE ConvertLoop(_, _, _, _, _)
\* date.ts 76-80: for utcHour = 0 .. 23
ConvertLoop(utcHourlyCounts, timezone, hourCycle, utcHour, tzCounts) ==
    IF utcHour >= HoursPerDay THEN tzCounts
    ELSE ConvertLoop(utcHourlyCounts, timezone, hourCycle, utcHour + 1,
                     ConvertStep(tzCounts, utcHourlyCounts, utcHour,
                                 convertUTCHourToTimezone(utcHour, timezone, hourCycle)))

\* date.ts 66-82
convertHourlyCountsToTimezone(utcHourlyCounts, timezone, hourCycle) ==
    IF timezone = "UTC"
    THEN [i \in DOMAIN utcHourlyCounts |-> Num(utcHourlyCounts[i])]
    ELSE ConvertLoop(utcHourlyCounts, timezone, hourCycle, 0,
                     [i \in 1..HoursPerDay |-> Num(0)])

\* date.ts 93-99 on numbers: count > maxCount is false for NaN whatever
\* maxCount is, as it is for -1 with maxCount starting at 0
Compared(counts) == [i \in DOMAIN counts |-> IF counts[i].nan THEN -1 ELSE counts[i].v]

\* lengths of the hourly_counts handed over: interval counts of windows of
\* 1, 2 and 12 hours and of a day or more
RenderLengths == { 1, 2, 12, HoursPerDay }

\* at most two non-zero buckets
RenderArrays ==
    { [i \in 1..n |-> IF i = p THEN a ELSE IF i = q THEN b ELSE 0] :
        n \in RenderLengths, p \in 1..HoursPerDay, q \in 1..HoursPerDay,
        a \in 0..MaxCount, b \in 0..MaxCount }

RenderCalls ==
    [pc : {"call"}, hourly_counts : RenderArrays,
     timezone : DOMAIN ZoneOffset \cup {UnknownZone}, hourCycle : HourCycles,
     tzHourlyCounts : {<<>>}, mostActiveHour : {Null}]

InitRender ==
    /\ FetchIdle /\ InitLocals
    /\ legacy = NotRun /\ tz = NotRun /\ cli = NotRun /\ xClient = NotRun
    /\ render \in RenderCalls

\* part_002 33, 36: the counts are converted and the peak is read off them
RenderConvert ==
    /\ render.pc = "call"
    /\ render.timezone = "UTC" \/ ZoneResolves(render.timezone)
    /\ LET tzHourlyCounts ==
               convertHourlyCountsToTimezone(render.hourly_counts, render.timezone,
                                             render.hourCycle)
       IN  render' = [render EXCEPT
                         !.pc = "done",
                         !.tzHourlyCounts = tzHourlyCounts,
                         !.mostActiveHour = findMostActiveHour(Compared(tzHourlyCounts))]
    /\ UNCHANGED <<fetchVars, legacy, tz, cli, xClient>>

\* date.ts 40: Intl.DateTimeFormat throws for a zone it does not know
RenderRaises ==
    /\ render.pc = "call"
    /\ ~(render.timezone = "UTC" \/ ZoneResolves(render.timezone))
    /\ render' = [render EXCEPT !.pc = "raised"]
    /\ UNCHANGED <<fetchVars, legacy, tz, cli, xClient>>

NextRender == RenderConvert \/ RenderRaises

SpecRender == InitRender /\ [][NextRender]_vars

----------------------------------------------------------------------------
(* postToX and uploadMedia: publish/xClient.ts 19-48.  xClient holds the
   arguments of one call, what the two requests will answer, the upload
   requests sent, the create request as it was sent, and the posts created. *)

\* line 23: 5 * 1024 * 1024
MaxMediaBytes == 5 * 1024 * 1024

\* the test with >= in place of >
MediaTooLargeInclusive(totalBytes) == totalBytes >= MaxMediaBytes

\* line 23
MediaTooLarge(totalBytes) == totalBytes > MaxMediaBytes

\* the id of the uploaded media, when the response carries one
UploadedId == "media-1"

\* lines 44-47: the media field is spread in only when mediaId is truthy
CreateBody(text, mediaId) ==
    [text |-> text, media_ids |-> IF mediaId # Null THEN <<mediaId[1]>> ELSE <<>>]

\* byteLength of the buffers handed in, and no buffer (Null)
MediaArgs ==
    { Null } \cup
    { Some(b) : b \in { 0, 1, MaxMediaBytes - 1, MaxMediaBytes,
                        MaxMediaBytes + 1, 2 * MaxMediaBytes } }

\* the upload answers with an id, answers without one (mediaRes?.data?.id is
\* undefined), or rejects; the creation of the post succeeds or rejects
XCalls ==
    [pc : {"call"}, text : {"", "caption"}, mediaBuffer : MediaArgs,
     upload : {"id", "noId", "raise"}, create : {"ok", "raise"},
     uploads : {0}, request : {Null}, posts : {<<>>}]

InitX ==
    /\ FetchIdle /\ InitLocals
    /\ legacy = NotRun /\ tz = NotRun /\ cli = NotRun /\ render = NotRun
    /\ xClient \in XCalls

\* lines 39-40, 44-47: no buffer was handed in, the post is requested
XCreateTextOnly ==
    /\ xClient.pc = "call"
    /\ xClient.mediaBuffer = Null
    /\ xClient' = [xClient EXCEPT !.pc = "create",
                                  !.request = Some(CreateBody(xClient.text, Null))]
    /\ UNCHANGED <<fetchVars, legacy, tz, cli, render>>

\* lines 40-41, 20-25: the buffer is over the limit, uploadMedia throws
XRejectMedia ==
    /\ xClient.pc = "call"
    /\ xClient.mediaBuffer # Null
    /\ MediaTooLarge(xClient.mediaBuffer[1])
    /\ xClient' = [xClient EXCEPT !.pc = "raised"]
    /\ UNCHANGED <<fetchVars, legacy, tz, cli, render>>

\* lines 40-41, 20-33: the upload is requested
XUpload ==
    /\ xClient.pc = "call"
    /\ xClient.mediaBuffer # Null
    /\ ~MediaTooLarge(xClient.mediaBuffer[1])
    /\ xClient' = [xClient EXCEPT !.pc = "upload", !.uploads = @ + 1]
    /\ UNCHANGED <<fetchVars, legacy, tz, cli, render>>

\* client.media.upload rejects, and so does postToX
XUploadFails ==
    /\ xClient.pc = "upload"
    /\ xClient.upload = "raise"
    /\ xClient' = [xClient EXCEPT !.pc = "raised"]
    /\ UNCHANGED <<fetchVars, legacy, tz, cli, render>>

\* lines 34-35, 41-47: the upload answers, the post is requested
XUploadSettles ==
    /\ xClient.pc = "upload"
    /\ xClient.upload \in {"id", "noId"}
    /\ LET mediaId == IF xClient.upload = "id" THEN Some(UploadedId) ELSE Null
       IN  xClient' = [xClient EXCEPT !.pc = "create",
                                      !.request = Some(CreateBody(xClient.text, mediaId))]
    /\ UNCHANGED <<fetchVars, legacy, tz, cli, render>>

\* line 44: client.posts.create resolves, the post exists
XCreateOk ==
    /\ xClient.pc = "create"
    /\ xClient.create = "ok"
    /\ xClient' = [xClient EXCEPT !.pc = "done", !.posts = Append(@, xClient.request[1])]
    /\ UNCHANGED <<fetchVars, legacy, tz, cli, render>>

\* line 44: client.posts.create rejects
XCreateFails ==
    /\ xClient.pc = "create"
    /\ xClient.create = "raise"
    /\ xClient' = [xClient EXCEPT !.pc = "raised"]
    /\ UNCHANGED <<fetchVars, legacy, tz, cli, render>>

NextX ==
    \/ XCreateTextOnly
    \/ XRejectMedia
    \/ XUpload
    \/ XUploadFails
    \/ XUploadSettles
    \/ XCreateOk
    \/ XCreateFails

SpecX == InitX /\ [][NextX]_vars

----------------------------------------------------------------------------
(* What the responses of the hosting service determine, whatever the order
   in which they arrive *)

Nodes == { r \in 1..Len(upstream.repos) : upstream.repos[r].present }

\* <<r, k>>: item k of the search result of repository r
Positions ==
    UNION { { <<r, k>> : k \in DOMAIN upstream.repos[r].items } : r \in Nodes }

ItemAt(p) == upstream.repos[p[1]].items[p[2]]

\* the items a successful timestamp search reports inside the window
Counted ==
    { p \in Positions : /\ upstream.repos[p[1]].ts = "ok"
                        /\ ItemAt(p).t # Null
                        /\ ItemAt(p).t[1] >= From
                        /\ ItemAt(p).t[1] <= To }

\* the items a successful sha search gathers
Gathered == { p \in Positions : upstream.repos[p[1]].sha = "ok" /\ ItemAt(p).sha }

\* the gathered items whose commit-detail request succeeds
Fetched == { p \in Gathered : ItemAt(p).stat = "ok" }

\* additions + deletions, summed over the items at the positions of S
SumLines(S) ==
    SumSeq([r \in 1..Len(upstream.repos) |->
        SumSeq([k \in 1..Len(upstream.repos[r].items) |->
            IF <<r, k>> \in S THEN upstream.repos[r].items[k].lines ELSE 0])])

CountsOf(S) ==
    [i \in 1..IntervalCount |->
        Cardinality({ p \in S : IntervalIndex(ItemAt(p).t[1]) = i - 1 })]

AllZero(counts) == \A i \in DOMAIN counts : counts[i] = 0

\* index (from 0) of the first bucket that holds the greatest count
FirstMax(counts) ==
    CHOOSE i \in 0..(Len(counts) - 1) :
        /\ \A j \in DOMAIN counts : counts[j] <= counts[i + 1]
        /\ \A j \in 1..i : counts[j] < counts[i + 1]

RECURSIVE InRepoOrder(_)
\* the gathered commits as a run that queries one repository after the other
\* would list them
InRepoOrder(nodes) ==
    IF nodes = <<>> THEN <<>>
    ELSE fetchCommitShasForRepo(Head(nodes)) \o InRepoOrder(Tail(nodes))

Returned == pc = "done" /\ upstream.agg = "ok"

\* the span of the resolved window, in whole hours
SpanHours == (To - From) \div MinutesPerHour

\* the least integer k with k * b >= a, for a >= 1 and b >= 1
Ceiling(a, b) == CHOOSE k \in 1..a : (k - 1) * b < a /\ a <= k * b

\* the bucket size, in hours, of a span of whole hours
SchemeSize(span) ==
    IF span <= 24 THEN 1
    ELSE IF span <= 48 THEN 2
    ELSE IF span <= 72 THEN 3
    ELSE Ceiling(span, 24)

SchemeCount(span) == Ceiling(span, SchemeSize(span))

\* hour of day, in UTC, of instant t
HourOfDay(t) == (t \div MinutesPerHour) % HoursPerDay

\* the string holds no digit at all
NoDigit(str) == \A i \in DOMAIN str : ~IsDigit(str[i])

\* the run has resolved its window (line 103)
Resolved == pc \notin {"start", "probe", "probed"}

\* the caller gave both bounds of the window
ExplicitBounds == window.from # Null /\ window.to # Null

\* the items a successful timestamp search reports inside [a, b]
ItemsWithin(a, b) ==
    { p \in Positions : /\ upstream.repos[p[1]].ts = "ok"
                        /\ ItemAt(p).t # Null
                        /\ ItemAt(p).t[1] >= a
                        /\ ItemAt(p).t[1] <= b }

\* the items a successful timestamp search reports outside the window
Strays ==
    { p \in Positions : /\ upstream.repos[p[1]].ts = "ok"
                        /\ ItemAt(p).t # Null
                        /\ (ItemAt(p).t[1] < From \/ ItemAt(p).t[1] > To) }

MetricFields ==
    {"commits_count", "prs_count", "issues_count", "reviews_count", "repos",
     "lines_changed", "most_active_hour", "hourly_counts", "interval_size"}

----------------------------------------------------------------------------
(* Claims *)

\* C1: for fixed upstream responses, commits_count, lines_changed,
\* hourly_counts and most_active_hour of the returned value are the same under
\* every completion order of the concurrent fetches: they are the values the
\* responses alone determine.
C1_OrderIndependent ==
    Returned =>
        LET m == result[1]
            counts == CountsOf(Counted)
        IN  /\ m.commits_count = Cardinality(Counted)
            /\ m.lines_changed = SumLines(Fetched)
            /\ m.hourly_counts = counts
            /\ m.most_active_hour =
                   IF AllZero(counts) THEN Null
                   ELSE Some((FirstMax(counts) * IntervalSize) % 24)

\* a run returned after its sha searches settled in another order than the
\* order of the repositories
C1_Witness ==
    /\ Returned
    /\ commitShasToFetch # InRepoOrder(repoContributionNodes)
    /\ result[1].commits_count >= 2
    /\ result[1].lines_changed > 0

\* C2: at every moment at most 3 repository-level fetches and at most 5
\* commit-detail fetches are in flight, whatever the number of repositories
\* and commits.
C2_BoundedInFlight ==
    /\ pc \in {"timestamps", "shas"} => BagCardinality(inflight) + idle <= RepoConcurrency
    /\ pc = "stats" => BagCardinality(inflight) + idle <= StatConcurrency

\* the commit-detail pool is full with commits still queued, in a run with
\* more repositories than the repository pools are wide
C2_Witness ==
    /\ pc = "stats"
    /\ BagCardinality(inflight) = StatConcurrency
    /\ queue # <<>>
    /\ Len(repoContributionNodes) > RepoConcurrency

\* C3: a commit search or commit-detail fetch that fails (non-success status
\* or thrown error) contributes zero commits / zero lines; every other
\* repository and commit is still fetched and counted in full, and the run
\* returns a result instead of raising.
C3_SoftFailure ==
    /\ pc = "raised" => sent.search = 0 /\ sent.detail = 0
    /\ Returned =>
        /\ sent.search = 2 * Cardinality(Nodes)
        /\ sent.detail = Cardinality(Gathered)
        /\ result[1].commits_count = Cardinality(Counted)
        /\ result[1].lines_changed = SumLines(Fetched)

\* a run returned commits and lines although a timestamp search, a sha search
\* and a commit-detail fetch failed
C3_Witness ==
    /\ Returned
    /\ \E r \in Nodes : upstream.repos[r].ts # "ok"
    /\ \E r \in Nodes : upstream.repos[r].sha # "ok"
    /\ \E p \in Gathered : ItemAt(p).stat \in {"status", "throw"}
    /\ result[1].commits_count > 0
    /\ result[1].lines_changed > 0

C5_NoRequestWithoutToken ==
    token = "" =>
        /\ pc \in {"start", "raised"}
        /\ sent.graphql = 0 /\ sent.search = 0 /\ sent.detail = 0
        /\ result = Null

\* the call has raised for an empty credential
C5_Witness == pc = "raised" /\ token = ""

\* C6: when the aggregate query returns no user record the call returns at
\* once, without any commit-search or commit-detail request, and the result
\* has all five totals 0, no repository, most_active_hour null and every
\* hourly_counts entry 0.
C6_AbsentUser ==
    upstream.agg = "nouser" =>
        /\ sent.search = 0 /\ sent.detail = 0
        /\ pc \in {"start", "graphql", "done"}
        /\ pc = "done" =>
            /\ result[1].commits_count = 0
            /\ result[1].lines_changed = 0
            /\ result[1].prs_count = 0
            /\ result[1].issues_count = 0
            /\ result[1].reviews_count = 0
            /\ result[1].repos = <<>>
            /\ result[1].most_active_hour = Null
            /\ Len(result[1].hourly_counts) > 0
            /\ AllZero(result[1].hourly_counts)

\* the call returned for a user that upstream does not know
C6_Witness == pc = "done" /\ upstream.agg = "nouser" /\ result # Null

\* C7: the number of commits whose details are fetched never exceeds
\* MAX_COMMITS = 200, however many repositories and commits upstream reports.
C7_DetailFetchesCapped == sent.detail <= MAX_COMMITS

\* C8: lines_changed is the sum of additions + deletions over exactly the
\* gathered commits whose detail fetch succeeded; a failed fetch adds
\* nothing, so lines_changed is at most the sum over all gathered commits.
C8_LinesChanged ==
    Returned =>
        LET g == commitShasToFetch
        IN  /\ result[1].lines_changed =
                   SumSeq([k \in DOMAIN g |-> IF g[k].stat = "ok" THEN g[k].lines ELSE 0])
            /\ result[1].lines_changed <= SumSeq([k \in DOMAIN g |-> g[k].lines])

\* a run returned a sum that leaves out the lines of a failed detail fetch
C8_Witness ==
    /\ Returned
    /\ \E k \in DOMAIN commitShasToFetch : commitShasToFetch[k].stat = "throw"
    /\ result[1].lines_changed > 0
    /\ result[1].lines_changed
           < SumSeq([k \in DOMAIN commitShasToFetch |-> commitShasToFetch[k].lines])

\* C9: in every result of fetchGithubMetrics and of findMostActiveHour the
\* most-active signal is null if and only if every bucket is zero; bucket 0
\* being the peak is reported as 0, never as null.
C9_NullIffAllZero ==
    /\ pc = "done" =>
        LET m == result[1]
        IN  /\ m.most_active_hour = Null <=> AllZero(m.hourly_counts)
            /\ (~AllZero(m.hourly_counts) /\ FirstMax(m.hourly_counts) = 0)
                   => m.most_active_hour = Some(0)
    /\ pc = "probed" =>
            /\ peak[1] = Null <=> AllZero(hourlyCounts)
            /\ (~AllZero(hourlyCounts) /\ FirstMax(hourlyCounts) = 0)
                   => peak[1] = Some(0)

\* a run returned hour 0 as the peak of a non-empty first bucket
C9_Witness ==
    /\ pc = "done"
    /\ result[1].hourly_counts[1] > 0
    /\ result[1].most_active_hour = Some(0)

\* C10: the peak selector picks a bucket whose count is the maximum over all
\* buckets, and among several buckets with that maximum the one with the
\* lowest index.
C10_EarliestMaximum ==
    /\ (Returned /\ agg.mostActiveInterval # Null) =>
        LET c == result[1].hourly_counts
            i == agg.mostActiveInterval[1]
        IN  /\ i + 1 \in DOMAIN c
            /\ \A j \in DOMAIN c : c[j] <= c[i + 1]
            /\ \A j \in 1..i : c[j] < c[i + 1]
            /\ result[1].most_active_hour = Some((i * IntervalSize) % 24)
    /\ (pc = "probed" /\ peak[1] # Null) =>
        LET i == peak[1][1]
        IN  /\ i + 1 \in DOMAIN hourlyCounts
            /\ \A j \in DOMAIN hourlyCounts : hourlyCounts[j] <= hourlyCounts[i + 1]
            /\ \A j \in 1..i : hourlyCounts[j] < hourlyCounts[i + 1]

\* findMostActiveHour selected index 0 of an array whose first two buckets
\* share the maximum
C10_Witness ==
    /\ pc = "probed"
    /\ Len(hourlyCounts) = HoursPerDay
    /\ hourlyCounts[1] = MaxCount
    /\ hourlyCounts[2] = MaxCount
    /\ peak = <<Some(0)>>

----------------------------------------------------------------------------
(* Claims about the window and its buckets, checked over SpecWindow *)

\* C11: for every window span from 1 hour to 30 days, and on every return
\* path (normal result and absent-user result), hourly_counts has exactly as
\* many entries as the interval count computed for that window.
C11_CountsLength ==
    (pc = "done" /\ SpanHours \in 1..MaxSpanHours) =>
        /\ Len(result[1].hourly_counts) = IntervalCount
        /\ Len(result[1].hourly_counts) = SchemeCount(SpanHours)

\* the absent-user result of a window of 100 hours has 20 entries
C11_Witness ==
    /\ pc = "done"
    /\ upstream.agg = "nouser"
    /\ SpanHours = 100
    /\ Len(result[1].hourly_counts) = 20

\* C12: in every result, the absent-user zero result included, interval_size
\* multiplied by the length of hourly_counts is at least the window span in
\* hours.
C12_BucketsCoverWindow ==
    (pc = "done" /\ SpanHours >= 1) =>
        result[1].interval_size * Len(result[1].hourly_counts) >= SpanHours

\* C13: in every result the sum of the hourly_counts entries is at most
\* commits_count: each collected timestamp is counted in at most one bucket
\* (the one of its interval, when that is one of the buckets) and nothing
\* else is counted.
C13_SumAtMostCommits ==
    pc = "done" =>
        LET m == result[1]
        IN  /\ SumSeq(m.hourly_counts) <= m.commits_count
            /\ Returned =>
                   SumSeq(m.hourly_counts) =
                       Cardinality({ p \in Counted :
                           IntervalIndex(ItemAt(p).t[1]) \in 0..(IntervalCount - 1) })

\* a run returned buckets that hold some of its commits, but not all
C13_Witness ==
    /\ Returned
    /\ SumSeq(result[1].hourly_counts) > 0
    /\ SumSeq(result[1].hourly_counts) < result[1].commits_count

\* C14: for a 24h window with 1-hour buckets, whatever the instant of
\* invocation, hourly_counts[h] is the number of collected commits authored
\* during UTC hour-of-day h and most_active_hour is the UTC hour-of-day with
\* the most commits (commits at 09:00, 09:15 and 14:00 UTC give
\* hourly_counts[9] = 2, hourly_counts[14] = 1, most_active_hour = 9,
\* commits_count = 3).
C14_HourOfDay ==
    (Returned /\ To - From = HoursPerDay * MinutesPerHour /\ IntervalSize = 1) =>
        LET m == result[1]
        IN  /\ \A h \in 0..(HoursPerDay - 1) :
                   m.hourly_counts[h + 1] =
                       Cardinality({ p \in Counted : HourOfDay(ItemAt(p).t[1]) = h })
            /\ upstream.repos = <<DayRepo(To)>> =>
                   /\ m.hourly_counts[10] = 2
                   /\ m.hourly_counts[15] = 1
                   /\ m.most_active_hour = Some(9)
                   /\ m.commits_count = 3

C16_DaysDuration ==
    \A n \in 1..MaxSpanDays :
        (Resolved /\ window.duration = Some(DaysDuration(n))) =>
            /\ To - From = n * HoursPerDay * MinutesPerHour
            /\ IntervalSize = SchemeSize(n * HoursPerDay)
            /\ IntervalCount = SchemeCount(n * HoursPerDay)

\* C17: when the TimeWindow carries explicit from and to, the window sent to
\* upstream and used for filtering and bucketing is exactly [from, to] as
\* given.
C17_ExplicitWindowUsed ==
    (Resolved /\ ExplicitBounds) =>
        /\ From = window.from[1]
        /\ To = window.to[1]
        /\ Returned =>
               result[1].commits_count =
                   Cardinality(ItemsWithin(window.from[1], window.to[1]))

\* C18: for every TimeWindow input the resolved window satisfies from <= to.
C18_FromNotAfterTo == Resolved => From <= To

\* C19: for every window span in whole hours the interval size is 1 hour up
\* to 24, 2 hours up to 48, 3 hours up to 72 and ceil(span / 24) hours
\* beyond, and the interval count is ceil(span / interval size).
C19_IntervalScheme ==
    (Resolved /\ WindowHours >= 1) =>
        /\ IntervalSize = SchemeSize(WindowHours)
        /\ IntervalCount = SchemeCount(WindowHours)
        /\ Returned =>
               /\ result[1].interval_size = SchemeSize(WindowHours)
               /\ Len(result[1].hourly_counts) = SchemeCount(WindowHours)

\* a run returned 20 buckets of 5 hours for a span of 100 hours
C19_Witness ==
    /\ Returned
    /\ WindowHours = 100
    /\ result[1].interval_size = 5
    /\ Len(result[1].hourly_counts) = 20

----------------------------------------------------------------------------
(* Checked over Spec *)

\* C20: a commit timestamp returned by upstream that lies outside [from, to]
\* is never counted in commits_count and never increments a bucket.
C20_OutsideDiscarded ==
    /\ \A k \in DOMAIN commitTimestamps :
           From <= commitTimestamps[k] /\ commitTimestamps[k] <= To
    /\ Returned =>
           /\ result[1].commits_count = Cardinality(Counted)
           /\ result[1].commits_count = Cardinality(ItemsWithin(From, To))
           /\ result[1].hourly_counts = CountsOf(Counted \ Strays)

\* a run returned commits although upstream reported, in successful
\* searches, one commit before the window and one after it
C20_Witness ==
    /\ Returned
    /\ \E p \in Strays : ItemAt(p).t[1] < From
    /\ \E p \in Strays : ItemAt(p).t[1] > To
    /\ result[1].commits_count > 0

\* C21: when the primary commit search of a repository reports a non-success
\* status, the commit-listing endpoint is queried for that repository before
\* the repository is treated as contributing zero commits.
C21_FallbackQueried ==
    (Returned /\ \E r \in Nodes : upstream.repos[r].ts = "status") =>
        sent.listing > 0

----------------------------------------------------------------------------
(* Checked over SpecWindow *)

\* the items that carry an author date inside the window
DatedWithin ==
    { p \in Positions : /\ ItemAt(p).t # Null
                        /\ ItemAt(p).t[1] >= From
                        /\ ItemAt(p).t[1] <= To }

\* C28: every commit whose additions + deletions are added to lines_changed
\* has its timestamp within [from, to], even when upstream erroneously
\* returns out-of-window commits.
C28_LinesWithinWindow ==
    Returned => result[1].lines_changed <= SumLines(Fetched \cap DatedWithin)

----------------------------------------------------------------------------
(* Claims about the worker pools, checked over SpecPool *)

PoolPhases == {"timestamps", "shas", "stats"}

\* the items of the pool that is running
PoolItems ==
    IF pc \in {"timestamps", "shas"} THEN repoContributionNodes
    ELSE IF pc = "stats" THEN commitShasToFetch
    ELSE <<>>

\* the workers of the running pool that have not ended
Workers == BagCardinality(inflight) + idle

\* a search or a commit-detail request of the run fails
SomeUnitFails ==
    \/ \E r \in Nodes : upstream.repos[r].ts # "ok" \/ upstream.repos[r].sha # "ok"
    \/ \E p \in Gathered : ItemAt(p).stat \in {"status", "throw"}

\* C24: in each pool every contributing repository and every gathered commit
\* is handed to its fetch function exactly once under every interleaving: no
\* unit is skipped, none is processed twice, and a unit whose fetch failed is
\* not requested again.
C24_EachUnitOnce ==
    /\ pc \in PoolPhases => handed \o queue = PoolItems
    /\ (pc \in PoolPhases /\ PoolIdle) => handed = PoolItems
    /\ pc = "timestamps" => sent.search = Len(handed) /\ sent.detail = 0
    /\ pc = "shas" =>
           sent.search = Len(repoContributionNodes) + Len(handed) /\ sent.detail = 0
    /\ pc = "stats" => sent.detail = Len(handed)
    /\ Returned =>
           /\ sent.search = 2 * Len(repoContributionNodes)
           /\ sent.detail = Len(commitShasToFetch)
           /\ Len(commitShasToFetch) = Cardinality(Gathered)

\* a run returned after pools longer than their width, with failed units
C24_Witness ==
    /\ Returned
    /\ Len(repoContributionNodes) > RepoConcurrency
    /\ Len(commitShasToFetch) > StatConcurrency
    /\ handed = commitShasToFetch
    /\ \E r \in Nodes : upstream.repos[r].ts = "status"
    /\ \E k \in DOMAIN commitShasToFetch : commitShasToFetch[k].stat = "throw"

\* C25: if every upstream request eventually settles, fetchGithubMetrics
\* eventually returns: each pool drains its queue and completes, whatever
\* units are slow or fail.
C25_EventuallyReturns ==
    /\ (pc = "start") ~> (pc \in {"done", "raised"})
    /\ (pc = "start" /\ token # "" /\ upstream.agg \in {"ok", "nouser"}) ~> (pc = "done")
    /\ (pc \in PoolPhases /\ queue # <<>>) ~> (queue = <<>>)
    /\ (pc \in PoolPhases) ~> (pc = "done")

\* a run returned although searches failed, one of them by a thrown error
C25_Witness ==
    /\ pc = "done"
    /\ \E r \in Nodes : upstream.repos[r].ts = "throw"
    /\ \E r \in Nodes : upstream.repos[r].sha = "status"
    /\ Len(repoContributionNodes) > RepoConcurrency

\* C27: the phases never overlap: the aggregate query settles before any
\* REST request is issued, every timestamp search settles before the first
\* sha search is issued, every sha search settles before the first
\* commit-detail request is issued; at most 5 requests are in flight.
C27_PhasesDoNotOverlap ==
    /\ [](pc \in {"start", "graphql"} =>
             sent.search = 0 /\ sent.detail = 0 /\ inflight = EmptyBag)
    /\ [](pc = "timestamps" =>
             sent.search <= Len(repoContributionNodes) /\ sent.detail = 0)
    /\ [](pc = "shas" => sent.detail = 0)
    /\ []((IF pc = "graphql" THEN 1 ELSE 0) + BagCardinality(inflight)
              <= StatConcurrency)
    /\ [][pc' # pc => inflight = EmptyBag /\ queue = <<>>]_vars
    /\ [][sent'.search > Len(repoContributionNodes)
              /\ sent.search <= Len(repoContributionNodes)
              /\ pc # "graphql"
                => inflight = EmptyBag /\ sent.search = Len(repoContributionNodes)]_vars

\* the sha searches are under way, as many as the pool is wide
C27_Witness ==
    /\ pc = "shas"
    /\ BagCardinality(inflight) = RepoConcurrency
    /\ sent.search = Len(repoContributionNodes) + RepoConcurrency
    /\ queue # <<>>

----------------------------------------------------------------------------
(* Claims about getHourInTargetTZ, checked over SpecTz *)

\* the offset the from string was written with, if it ends with one
FromOffset ==
    IF tz.windowFromIso = Null THEN Null
    ELSE LET written == { o \in Offsets : \E c \in BOOLEAN :
                             tz.windowFromIso[1] = IsoLocal \o FormatOffset(o, c) }
         IN  IF written = {} THEN Null ELSE Some(CHOOSE o \in written : TRUE)

\* a zone was named and the runtime resolves it
NamedZoneResolved == tz.timeZone # Null /\ tz.timeZone[1] \in DOMAIN ZoneOffset

\* the offset of the first tier that applies
TierOffset ==
    IF NamedZoneResolved THEN ZoneOffset[tz.timeZone[1]]
    ELSE IF FromOffset # Null THEN FromOffset[1]
    ELSE tz.local

\* C22: getHourInTargetTZ resolves the hour in strict order, first success
\* wins: the civil hour in the named zone when one is supplied and the
\* runtime resolves it; otherwise the UTC hour of the timestamp shifted by
\* the offset at the end of the from string; otherwise the local hour.  A
\* zone the runtime cannot resolve never raises.
C22_TierOrder ==
    /\ tz.pc # "raised"
    /\ (tz.pc = "returned" /\ tz.tsIso # Null) =>
           tz.hour = Some(HourOfDay(tz.tsIso[1] + TierOffset))

\* the same, on a runtime whose 24-hour clock counts midnight as 0
C22_TierOrderH23 ==
    (tz.pc = "returned" /\ tz.tsIso # Null /\ tz.hourCycle = "h23") =>
        tz.hour = Some(HourOfDay(tz.tsIso[1] + TierOffset))

----------------------------------------------------------------------------
(* Claims about main, checked over SpecCli *)

\* the run ended
CliEnded == cli.pc \in {"exit0", "exit1"}

\* C23: a run with --dry-run that gets as far as rendering writes
\* out/summary.svg and out/summary.png and never calls postToX, whatever
\* twitter.publish, the commit count and the X secrets are.
C23_DryRunWritesBoth ==
    cli.dryRun =>
        /\ cli.posted = 0
        /\ cli.pc # "post"
        /\ (CliEnded /\ "summary.svg" \in cli.files) =>
               cli.files = {"summary.svg", "summary.png"}

\* a run with --dry-run never calls postToX, and one that returns has
\* written both files
C23_DryRunNeverPosts ==
    cli.dryRun =>
        /\ cli.posted = 0
        /\ cli.pc # "post"
        /\ cli.pc = "exit0" => cli.files = {"summary.svg", "summary.png"}

----------------------------------------------------------------------------
(* Both withConcurrency, checked over SpecPool *)

\* the workers of the pool of svgToPng.ts that have not ended
LegacyWorkers == legacy.inflight + legacy.idle

\* C26: in withConcurrency a worker stops only when the shared queue is
\* empty: after a unit finishes (or fails) the worker takes the next queued
\* unit, so no unit waits in the queue while a worker is idle, and
\* withConcurrency completes only after every unit's function has settled.
C26_WorkersDrainQueue ==
    /\ [][(pc \in PoolPhases /\ pc' = pc /\ Workers' < Workers) => queue = <<>>]_vars
    /\ [][(pc \in PoolPhases /\ queue # <<>> /\ idle' < idle) =>
              handed' = Append(handed, Head(queue)) /\ Workers' = Workers]_vars
    /\ (pc \in PoolPhases /\ idle > 0 /\ queue # <<>>) ~> (idle = 0 \/ queue = <<>>)
    /\ [][(pc \in PoolPhases /\ pc' # pc) =>
              /\ inflight = EmptyBag /\ idle = 0 /\ queue = <<>>
              /\ handed = PoolItems]_vars
    /\ [][(legacy.pc = "stats" /\ legacy'.pc = "stats"
                /\ LegacyWorkers' < LegacyWorkers) =>
              legacy.idx >= legacy.commitShasToFetch]_vars
    /\ [][(legacy.pc = "stats" /\ legacy.idx < legacy.commitShasToFetch
                /\ legacy'.idle < legacy.idle) =>
              legacy'.idx = legacy.idx + 1 /\ LegacyWorkers' = LegacyWorkers]_vars
    /\ (legacy.pc = "stats" /\ legacy.idle > 0 /\ legacy.idx < legacy.commitShasToFetch)
           ~> (legacy.pc = "stats" =>
                   legacy.idle = 0 \/ legacy.idx >= legacy.commitShasToFetch)
    /\ [][(legacy.pc = "stats" /\ legacy'.pc # "stats") =>
              /\ legacy.inflight = 0 /\ legacy.idle = 0
              /\ legacy.idx >= legacy.commitShasToFetch
              /\ legacy.sent.detail = legacy.commitShasToFetch]_vars

\* a worker is between two units while units are queued and others in flight
C26_Witness ==
    /\ pc \in PoolPhases
    /\ idle > 0
    /\ queue # <<>>
    /\ inflight # EmptyBag

----------------------------------------------------------------------------
(* Claims about the collector of svgToPng.ts, checked over SpecLegacy *)

\* C29: no repository ever yields more than MAX_COMMITS_PER_REPO = 150 commit
\* SHAs, on every path: primary search pages only, fallback listing only,
\* and a successful search page followed by a failed page that triggers
\* the fallback.
C29_PerRepoCap ==
    legacy.pc \in {"page", "search", "listing", "return"} =>
        legacy.shas <= MAX_COMMITS_PER_REPO

\* the same for the searches alone and for the listing alone
C29_PerRepoCapOnePath ==
    (/\ legacy.pc \in {"page", "search", "listing", "return"}
     /\ LegacyRepo(legacy).failAt \in {0, 1}) =>
        legacy.shas <= MAX_COMMITS_PER_REPO

\* C30: once MAX_COMMITS = 200 commit SHAs have been gathered, no search or
\* listing request is issued for any further repository, and the list of
\* commits handed to the stats pool never holds more than 200 entries.
C30_GlobalCap ==
    /\ [](legacy.pc # "idle" => legacy.commitShasToFetch <= MAX_COMMITS)
    /\ [](legacy.pc = "stats" => legacy.sent.detail <= MAX_COMMITS)
    /\ [][(legacy.pc # "idle" /\ legacy.processedCommits >= MAX_COMMITS) =>
              /\ legacy'.sent.search = legacy.sent.search
              /\ legacy'.sent.listing = legacy.sent.listing]_vars

\* the run returned with 200 commits gathered, more returned by the last
\* repository queried than were pushed, and a repository left unqueried
C30_Witness ==
    /\ legacy.pc = "done"
    /\ legacy.processedCommits = MAX_COMMITS
    /\ legacy.commitShasToFetch = MAX_COMMITS
    /\ legacy.shas > PerPage - 20
    /\ legacy.r <= Len(legacy.nodes)
    /\ legacy.sent.detail = MAX_COMMITS

\* the commits upstream holds for the repositories of the run
LegacyAvailable ==
    SumSeq([i \in 1..Len(legacy.nodes) |-> legacy.up.repos[legacy.nodes[i]].avail])

\* no search and no commit-detail request of the run fails
LegacyNoFailure ==
    /\ legacy.up.agg = "ok"
    /\ legacy.up.detail = "ok"
    /\ \A i \in DOMAIN legacy.up.repos : legacy.up.repos[i].failAt = 0

\* C31: whenever at least 200 qualifying commits are available upstream (in
\* any distribution over the repositories, e.g. 300 in a single repository)
\* and no request fails, exactly 200 commits are selected and have their
\* details fetched.
C31_ExactlyCap ==
    (legacy.pc = "done" /\ LegacyNoFailure /\ LegacyAvailable >= MAX_COMMITS) =>
        /\ legacy.commitShasToFetch = MAX_COMMITS
        /\ legacy.sent.detail = MAX_COMMITS
        /\ legacy.totalLinesChanged = MAX_COMMITS

\* the same when no repository holds more than MAX_COMMITS_PER_REPO commits
C31_ExactlyCapSpread ==
    (/\ legacy.pc = "done" /\ LegacyNoFailure /\ LegacyAvailable >= MAX_COMMITS
     /\ \A i \in DOMAIN legacy.up.repos :
            legacy.up.repos[i].avail <= MAX_COMMITS_PER_REPO) =>
        /\ legacy.commitShasToFetch = MAX_COMMITS
        /\ legacy.sent.detail = MAX_COMMITS

\* C32: when no commit timestamp is collected (all 24 hourly buckets are
\* zero), the returned most_active_hour is null, not 0.
C32_AllZeroIsNull ==
    (/\ legacy.pc = "done" /\ legacy.up.agg = "ok"
     /\ \A h \in DOMAIN legacy.result[1].hourly_counts :
            legacy.result[1].hourly_counts[h] = 0) =>
        legacy.result[1].most_active_hour = Null

\* when a timestamp is counted, most_active_hour is the first of the fullest
\* of the 24 buckets
C32_PeakWhenCounted ==
    (/\ legacy.pc = "done" /\ legacy.up.agg = "ok"
     /\ \E h \in 1..HoursPerDay : legacy.result[1].hourly_counts[h] > 0) =>
        LET counts == legacy.result[1].hourly_counts
            best == legacy.result[1].most_active_hour
        IN  /\ best # Null
            /\ \A h \in 1..HoursPerDay : counts[h] <= counts[best[1] + 1]
            /\ \A h \in 1..best[1] : counts[h] < counts[best[1] + 1]

----------------------------------------------------------------------------
(* More about main, checked over SpecCli *)

BothFiles == {"summary.svg", "summary.png"}

\* C33: postToX is called at most once, and only if --dry-run is absent,
\* twitter.publish is truthy, commits_count is not 0,
\* twitter.message_template is set and the four X secrets are all present;
\* and only after out/summary.svg and out/summary.png have both been written.
C33_PostOnlyWhenAllowed ==
    /\ [](cli.pc # "idle" => cli.posted <= 1)
    /\ []((cli.pc # "idle" /\ cli.posted > 0) =>
              /\ ~cli.dryRun
              /\ cli.publish
              /\ cli.commits_count # 0
              /\ cli.message_template
              /\ \A name \in XSecrets : name \in cli.secrets
              /\ cli.files = BothFiles)
    /\ [][(cli.pc # "idle" /\ cli'.posted # cli.posted) =>
              cli.files = BothFiles /\ cli'.posted = cli.posted + 1]_vars
    /\ [][(cli.pc # "idle" /\ cli.posted > 0) => cli'.posted = cli.posted]_vars

\* the run posted and ended normally
C33_Witness ==
    /\ cli.pc = "exit0"
    /\ cli.posted = 1
    /\ cli.files = BothFiles

----------------------------------------------------------------------------
(* Claims about postToX, checked over SpecX *)

\* the call was handed a buffer of more than 5 MiB
OverLimit == xClient.mediaBuffer # Null /\ xClient.mediaBuffer[1] > 5 * 1024 * 1024

\* the call was handed a buffer of exactly 5 MiB
AtLimit == xClient.mediaBuffer = Some(5 * 1024 * 1024)

C35_PostCarriesMedia ==
    (xClient.pc # "idle" /\ xClient.mediaBuffer # Null) =>
        \A k \in DOMAIN xClient.posts : xClient.posts[k].media_ids = <<UploadedId>>

\* the same when the upload response carries an id
C35_PostCarriesMediaWithId ==
    (xClient.pc # "idle" /\ xClient.mediaBuffer # Null /\ xClient.upload = "id") =>
        \A k \in DOMAIN xClient.posts : xClient.posts[k].media_ids = <<UploadedId>>

----------------------------------------------------------------------------
(* Claims about the conversion of the hourly counts, checked over SpecRender *)

\* the entries are finite numbers and add up to the input's total, and the
\* peak is null exactly when the input holds no commit
ConversionKeepsCounts ==
    /\ \A i \in DOMAIN render.tzHourlyCounts : ~render.tzHourlyCounts[i].nan
    /\ SumSeq([i \in DOMAIN render.tzHourlyCounts |-> render.tzHourlyCounts[i].v])
           = SumSeq(render.hourly_counts)
    /\ (render.mostActiveHour = Null) <=> (SumSeq(render.hourly_counts) = 0)

\* C36: for every hourly_counts array fetchGithubMetrics can return and every
\* target timezone, convertHourlyCountsToTimezone returns numeric entries
\* whose sum equals the sum of the input entries, and findMostActiveHour on
\* the result is null exactly when the input is all zero.
C36_ConversionKeepsCounts == render.pc = "done" => ConversionKeepsCounts

\* the same for 24 entries on a runtime that formats midnight as 0, and for
\* the zone UTC
C36_ConversionKeepsFullDay ==
    (/\ render.pc = "done"
     /\ \/ render.timezone = "UTC"
        \/ Len(render.hourly_counts) = HoursPerDay /\ render.hourCycle = "h23")
    => ConversionKeepsCounts

----------------------------------------------------------------------------
(* More about the window, checked over SpecWindow *)

\* C37: for every window span of at least 1 hour, the interval count computed
\* by calculateIntervalSize and calculateIntervalCount is between 1 and 24
\* inclusive, so hourly_counts never has more than 24 entries.
C37_AtMostADayOfBuckets ==
    (Resolved /\ WindowHours >= 1) =>
        /\ IntervalCount \in 1..HoursPerDay
        /\ pc = "done" => Len(result[1].hourly_counts) \in 1..HoursPerDay

\* a window of more than 72 hours returned exactly 24 buckets of 30 hours
C37_Witness ==
    /\ Returned
    /\ WindowHours > 72
    /\ result[1].interval_size = 30
    /\ Len(result[1].hourly_counts) = HoursPerDay

----------------------------------------------------------------------------
(* More about the result, checked over Spec *)

\* s lists the entries of the aggregate response that carry a repository,
\* each once, in the order of the response
ListsUpstreamRepos(s) ==
    /\ Len(s) = Cardinality({ i \in DOMAIN upstream.repos : upstream.repos[i].present })
    /\ \A k \in DOMAIN s : s[k] \in DOMAIN upstream.repos /\ upstream.repos[s[k]].present
    /\ \A j \in DOMAIN s : \A k \in DOMAIN s : j < k => s[j] < s[k]

\* C38: the repos list returned by fetchGithubMetrics is fixed by the
\* aggregate query alone: one entry per repository returned, in upstream
\* order, and no commit-search or commit-detail outcome adds, removes or
\* changes an entry.
C38_ReposFixedByAggregate ==
    (upstream.agg = "ok" /\ pc \in {"timestamps", "shas", "stats", "done"}) =>
        /\ ListsUpstreamRepos(repoContributionNodes)
        /\ pc = "done" => /\ result[1].repos = repoContributionNodes
                          /\ ListsUpstreamRepos(result[1].repos)

\* a run returned two or more repositories although a commit search of one
\* of them failed and a commit-detail request failed
C38_Witness ==
    /\ Returned
    /\ Len(result[1].repos) >= 2
    /\ \E k \in DOMAIN result[1].repos : upstream.repos[result[1].repos[k]].ts # "ok"
    /\ \E k \in DOMAIN result[1].repos :
           \E c \in DOMAIN upstream.repos[result[1].repos[k]].items :
               upstream.repos[result[1].repos[k]].items[c].stat # "ok"
============================================================================
